---- MODULE Spec2Model ----
(***************************************************************************)
(* Verification model of the BTC DCA scheduler's strategy execution core:  *)
(*   - strategies/runtime.py  StrategyOrchestrator (dedupe + dispatch)     *)
(*   - strategies/cdc.py      CdcDcaStrategy decision functions            *)
(*   - main.py                check_cdc_transition_and_act, gate_weekly_dca *)
(*                            and run_loop_scheduler                        *)
(* Each subsystem has its own specification (SpecOrch, SpecDecide,         *)
(* SpecTrans, SpecSched) over the shared variables below.                  *)
(***************************************************************************)
EXTENDS Integers, Sequences, FiniteSets, TLC

VARIABLES
    \* ---- StrategyOrchestrator (strategies/runtime.py) ----
    dedupe_cache,     \* StrategyOrchestrator._dedupe_cache: set of dedupe keys
    calls,            \* history (SpecOrch): handler invocations made by execute, in order
    all_results,      \* history (SpecOrch): every ActionResult execute returned, in order
    last_exec,        \* the last execute call: its decision, results, propagated flag
    \* ---- decision functions (strategies/cdc.py) ----
    dec_in,           \* the TransitionDecisionInput under evaluation
    dec_out,          \* [done, actions]: what decide_transition returned for it
    \* ---- collaborator store and exchanges (main.py) ----
    state_row,        \* the strategy_state row of mode 'cdc_dca_v1'
    sell_orders,      \* history: sell orders submitted per exchange since the signal turned down
    buy_orders,       \* history: number of buy orders submitted to an exchange
    \* ---- environment of the transition check ----
    signal,           \* the status get_cdc_status_1d computes from the candles now
    n_checks,         \* number of check_cdc_transition_and_act calls so far
    last_check,       \* summary of the last transition check
    \* ---- schedules store and scheduler loop (main.py run_loop_scheduler) ----
    schedules,        \* the schedules table: id -> row
    now,              \* wall clock in the business timezone: [date, unit], units of 10 s
    config_cache,     \* run_loop_scheduler.config_cache: the rows of the last load
    cache_expiry,     \* run_loop_scheduler.cache_expiry
    last_run_times,   \* run_loop_scheduler.last_run_times: id -> <<date, schedule time>>
    last_transition_check,  \* run_loop_scheduler.last_transition_check
    cdc_cache,        \* _CDC_CACHE: the signal computed last and when it expires
    pause,            \* units the loop still sleeps before its next iteration
    loop_alive,       \* the while loop of run_loop_scheduler has not been left
    restarts,         \* number of process restarts so far
    faults,           \* number of failures the environment has injected so far
    active_at_load,   \* history: ids whose is_active was 1 in the store at the last load
    gate_log,         \* history: per schedule id and date, what gate_weekly_dca did
    last_iter         \* summary of the last loop iteration

orch_vars == <<dedupe_cache, calls, all_results, last_exec>>
dec_vars == <<dec_in, dec_out>>
store_vars == <<state_row, sell_orders, buy_orders>>
trans_vars == <<signal, n_checks, last_check>>
sched_vars == <<schedules, now, config_cache, cache_expiry, last_run_times,
                last_transition_check, cdc_cache, pause, loop_alive, restarts, faults,
                active_at_load, gate_log, last_iter>>
vars == <<dedupe_cache, calls, all_results, last_exec, dec_in, dec_out,
          state_row, sell_orders, buy_orders, signal, n_checks, last_check,
          schedules, now, config_cache, cache_expiry, last_run_times,
          last_transition_check, cdc_cache, pause, loop_alive, restarts, faults,
          active_at_load, gate_log, last_iter>>

(***************************************************************************)
(* strategies/base.py                                                      *)
(***************************************************************************)

\* ActionStatus enum
ActionStatus == {"SUCCESS", "SKIPPED", "FAILED"}

\* dedupe_key_for(*parts): every part is normalised to its text (None -> "null",
\* str(part) for strings and numbers) and the texts are joined with "|".  The model
\* keeps the tuple of the normalised texts; callers pass numbers through Str.
NormPart(p) == IF p = "None" THEN "null" ELSE p

Str(n) == ToString(n)

dedupe_key_for(parts) == [i \in 1..Len(parts) |-> NormPart(parts[i])]

\* StrategyAction dataclass
StrategyAction(kind, rid, key, payload) ==
    [action_type |-> kind, request_id |-> rid, dedupe_key |-> key, payload |-> payload]

\* ActionResult dataclass
ActionResult(rid, key, status, detail, data) ==
    [request_id |-> rid, dedupe_key |-> key, status |-> status, detail |-> detail,
     data |-> data]

NoData == [payload |-> "none"]

(***************************************************************************)
(* Handlers.  A handler is named in the handler table; RunHandler applies   *)
(* it to one action in environment e (what the exchange / store do during   *)
(* the call) and world w (the state handlers read and write).               *)
(* It returns [raised, text, result, w].                                    *)
(***************************************************************************)

\* What an arbitrary handler can do: return a result with any status, or raise.
HandlerOutcomes == ActionStatus \cup {"RAISE"}

\* An arbitrary ActionHandler (the Callable the caller passes to execute).
ScriptedHandler(action, e, w) ==
    IF e = "RAISE"
    THEN [raised |-> TRUE, text |-> "boom", result |-> "none", w |-> w]
    ELSE [raised |-> FALSE, text |-> "",
          result |-> ActionResult(action.request_id, action.dedupe_key, e, "None", NoData),
          w |-> w]

\* What one exchange-facing execution can do: "executed" (the order is placed and
\* recorded), "skipped" (a guard or a minimum stops it before any order),
\* "error_before" (an exception before the order request), "error_after" (the order
\* request was sent, then an exception: empty fill, store or notification failure).
ExecOutcomes == {"executed", "skipped", "error_before", "error_after"}

OrderSent(e) == e \in {"executed", "error_after"}

\* main.py:1632-1880  _execute_half_sell_for_exchange: the result dict's class and
\* the order it submitted
execute_half_sell_for_exchange(ex, pct, e, w) ==
    IF pct <= 0
    THEN [class |-> "skipped", w |-> w]
    ELSE [class |-> IF e = "executed" THEN "executed"
                    ELSE IF e = "skipped" THEN "skipped" ELSE "error",
          w |-> IF OrderSent(e) /\ ex \in DOMAIN w.sells
                THEN [w EXCEPT !.sells[ex] = @ + 1] ELSE w]

\* main.py:203-221  handle_half_sell_action: SUCCESS iff the result says executed
handle_half_sell_action(action, e, w) ==
    LET r == execute_half_sell_for_exchange(action.payload.exchange,
                                           action.payload.percent, e, w)
    IN  [raised |-> FALSE, text |-> "",
         result |-> ActionResult(action.request_id, action.dedupe_key,
                        IF r.class = "executed" THEN "SUCCESS" ELSE "FAILED", "None",
                        [payload |-> r.class]),
         w |-> r.w]

ReserveField(mode, ex) ==
    IF mode = "exchange" /\ ex # "" THEN
        IF ex = "binance" THEN "reserve_binance_usdt" ELSE "reserve_okx_usdt"
    ELSE "reserve_usdt"

\* What an executed reserve buy can report as spent (cummulative_quote_qty): the
\* reserve ("executed"), less of it when the free balance is smaller
\* ("executed_less", spend = min(available, reserve)), or more than the reserve
\* ("executed_more", a fill reported above the quote amount).
ReserveBuyOutcomes == ExecOutcomes \cup {"executed_less", "executed_more"}

ReserveOverspend == 5

SpentOf(e, reserve) ==
    IF e = "executed_less" THEN reserve \div 2
    ELSE IF e = "executed_more" THEN reserve + ReserveOverspend
    ELSE reserve

\* Mutant: the decrement is not clamped.
reserve_after_buy_unclamped(reserve, spent) == reserve - spent

\* main.py:2052, 2234-2236  GREATEST(reserve - spent, 0)
reserve_after_buy(reserve, spent) == IF reserve - spent > 0 THEN reserve - spent ELSE 0

\* main.py:1927-2111 execute_reserve_buy / 2113-2283 execute_reserve_buy_exchange:
\* nothing to do without reserve; on execution the purchase row and the reserve
\* decrement (GREATEST(reserve - spent, 0)) commit together; an exception after the
\* order leaves the reserve as it was.
execute_reserve_buy(mode, ex, e, w) ==
    LET f == ReserveField(mode, ex)
        reserve == w.row[f]
    IN  IF reserve <= 0 THEN [class |-> "skipped", w |-> w]
        ELSE IF e = "skipped" THEN [class |-> "skipped", w |-> w]
        ELSE IF e = "error_before" THEN [class |-> "error", w |-> w]
        ELSE IF e = "error_after"
             THEN [class |-> "error", w |-> [w EXCEPT !.buys = @ + 1]]
        ELSE [class |-> "executed",
              w |-> [w EXCEPT !.buys = @ + 1,
                              !.row[f] = reserve_after_buy(reserve, SpentOf(e, reserve))]]

\* main.py:224-244  handle_reserve_buy_action: SUCCESS if executed or skipped
handle_reserve_buy_action(action, e, w) ==
    LET r == execute_reserve_buy(action.payload.mode, action.payload.exchange, e, w)
    IN  [raised |-> FALSE, text |-> "",
         result |-> ActionResult(action.request_id, action.dedupe_key,
                        IF r.class \in {"executed", "skipped"} THEN "SUCCESS" ELSE "FAILED",
                        "None", [payload |-> r.class]),
         w |-> r.w]

\* main.py:982-1092  purchase_btc: returns after the order is placed and recorded;
\* every failure is re-raised, before the order (balance, adapter) or after it
\* (notification, fee totals, purchase_history insert).
purchase_btc(e, w) ==
    [raised |-> e # "executed",
     w |-> IF OrderSent(e) THEN [w EXCEPT !.buys = @ + 1] ELSE w]

\* main.py:2640-2661  handle_global_buy: SUCCESS unless purchase_btc raises
handle_global_buy(action, e, w) ==
    LET p == purchase_btc(e, w)
    IN  [raised |-> p.raised, text |-> IF p.raised THEN "boom" ELSE "",
         result |-> ActionResult(action.request_id, action.dedupe_key, "SUCCESS", "None",
                        [payload |-> "buy"]),
         w |-> p.w]

\* An amount as a caller passes it: a number, or something float() rejects.
Num(v) == [num |-> TRUE, val |-> v]
NotANumber == [num |-> FALSE, val |-> 0]

\* main.py:1390-1393  float(amount or 0.0), TypeError / ValueError caught
ToFloat(amount) == [raised |-> ~amount.num, val |-> IF amount.num THEN amount.val ELSE 0]

\* main.py:1388-1415  increment_reserve: nothing for a non-positive amount; a failing
\* store update is swallowed and 0.0 returned
increment_reserve(row, amount, store_ok) ==
    LET amt == ToFloat(amount)
    IN  IF amt.raised \/ amt.val <= 0 THEN [row |-> row, val |-> 0]
        ELSE IF store_ok
        THEN [row |-> [row EXCEPT !.reserve_usdt = @ + amt.val],
              val |-> row.reserve_usdt + amt.val]
        ELSE [row |-> row, val |-> 0]

\* main.py:1417-1448  increment_reserve_exchange: the same on the exchange's column
\* (okx's for every exchange that is not binance)
increment_reserve_exchange(row, ex, amount, store_ok) ==
    LET amt == ToFloat(amount)
        f == IF ex = "binance" THEN "reserve_binance_usdt" ELSE "reserve_okx_usdt"
    IN  IF amt.raised \/ amt.val <= 0 THEN [row |-> row, val |-> 0]
        ELSE IF store_ok
        THEN [row |-> [row EXCEPT ![f] = @ + amt.val], val |-> row[f] + amt.val]
        ELSE [row |-> row, val |-> 0]

\* main.py:2663-2693  handle_global_reserve: SUCCESS whatever increment_reserve returned
handle_global_reserve(action, e, w) ==
    LET r == increment_reserve(w.row, Num(action.payload.amount), e = "executed")
    IN  [raised |-> FALSE, text |-> "",
         result |-> ActionResult(action.request_id, action.dedupe_key, "SUCCESS", "None",
                        [payload |-> "reserve"]),
         w |-> [w EXCEPT !.row = r.row]]

\* The handler callables the callers register, by name.
RunHandler(h, action, e, w) ==
    CASE h = "handle_half_sell_action" -> handle_half_sell_action(action, e, w)
      [] h = "handle_reserve_buy_action" -> handle_reserve_buy_action(action, e, w)
      [] h = "handle_global_buy" -> handle_global_buy(action, e, w)
      [] h = "handle_global_reserve" -> handle_global_reserve(action, e, w)
      [] OTHER -> ScriptedHandler(action, e, w)

(***************************************************************************)
(* strategies/runtime.py: StrategyOrchestrator.execute                     *)
(***************************************************************************)

\* Mutant: the membership test on the dedupe cache is skipped.
IsDuplicate_never(key, cache) == FALSE

\* runtime.py:31  `if dedupe_key in self._dedupe_cache`
IsDuplicate(key, cache) == key \in cache

\* Mutant: the exception of a handler is not converted but propagates.
CatchHandlerException_propagate(r, action) ==
    [propagated |-> r.raised, result |-> r.result]

\* runtime.py:54-62  try: result = await handler(action) / except Exception: FAILED(str(exc))
CatchHandlerException(r, action) ==
    [propagated |-> FALSE,
     result |-> IF r.raised
                THEN ActionResult(action.request_id, action.dedupe_key, "FAILED", r.text, NoData)
                ELSE r.result]

\* Mutant: the dedupe key is recorded for every handled action.
RecordsKey_always(status) == TRUE

\* runtime.py:64  `if result.status is ActionStatus.SUCCESS`
RecordsKey(status) == status = "SUCCESS"

\* One pass of the for loop of execute from position i on.  st carries the
\* orchestrator cache, the results so far, the invocation history and the world.
RECURSIVE ExecuteFrom(_, _, _, _, _)
ExecuteFrom(actions, handlers, env, i, st) ==
    IF i > Len(actions) \/ st.propagated THEN st
    ELSE LET action == actions[i]
             key == action.dedupe_key
         IN  IF IsDuplicate(key, st.cache)
             THEN ExecuteFrom(actions, handlers, env, i + 1,
                    [st EXCEPT !.results = Append(@,
                        ActionResult(action.request_id, key, "SKIPPED", "duplicate_action", NoData))])
             ELSE IF action.action_type \notin DOMAIN handlers
             THEN ExecuteFrom(actions, handlers, env, i + 1,
                    [st EXCEPT !.results = Append(@,
                        ActionResult(action.request_id, key, "FAILED", "no_handler", NoData))])
             ELSE LET r == RunHandler(handlers[action.action_type], action, env[i], st.w)
                      c == CatchHandlerException(r, action)
                      inv == [key |-> key, pos |-> i,
                              outcome |-> IF r.raised THEN "RAISE" ELSE r.result.status]
                  IN  IF c.propagated
                      THEN [st EXCEPT !.propagated = TRUE, !.w = r.w,
                                      !.calls = Append(@, inv)]
                      ELSE ExecuteFrom(actions, handlers, env, i + 1,
                             [cache |-> IF RecordsKey(c.result.status)
                                        THEN st.cache \cup {key} ELSE st.cache,
                              results |-> Append(st.results, c.result),
                              calls |-> Append(st.calls, inv),
                              w |-> r.w,
                              propagated |-> FALSE])

\* StrategyOrchestrator.execute(decision, handlers)
Execute(actions, handlers, env, cache, w) ==
    ExecuteFrom(actions, handlers, env, 1,
        [cache |-> cache, results |-> <<>>, calls |-> <<>>, w |-> w, propagated |-> FALSE])

(***************************************************************************)
(* SpecOrch: one orchestrator instance, any sequence of execute calls with  *)
(* arbitrary decisions and arbitrarily behaving handlers.                   *)
(***************************************************************************)

MaxBatch == 2     \* actions per decision
MaxLog == 4       \* total actions processed over the orchestrator's lifetime

OrchKeys == {<<"key">>, <<"key2">>}
\* DCA_BUY has a handler in the table, SYNC has none (test_cdc_strategy.py:132).
OrchKinds == {"DCA_BUY", "SYNC"}
OrchHandlers == [k \in {"DCA_BUY"} |-> "scripted"]
OrchActions == {StrategyAction(k, "req", key, "none") : k \in OrchKinds, key \in OrchKeys}

SeqsUpTo(S, n) == UNION {[1..m -> S] : m \in 1..n}

NoExec == [actions |-> <<>>, results |-> <<>>, propagated |-> FALSE, calls |-> <<>>]

NotDecided == [done |-> FALSE, actions |-> <<>>]

InitOrchVars ==
    /\ dedupe_cache = {}
    /\ calls = <<>>
    /\ all_results = <<>>
    /\ last_exec = NoExec

InitDecIdle ==
    /\ dec_in = "none"
    /\ dec_out = NotDecided

\* main.py:1175-1190  the defaults of load_strategy_state (a fresh row holds the same)
StateDefaults ==
    [last_cdc_status |-> "None", reserve_usdt |-> 0, red_epoch_active |-> 0,
     cdc_enabled |-> 1, sell_percent |-> 50, exchange |-> "binance",
     sell_percent_binance |-> 50, sell_percent_okx |-> 50,
     half_sell_policy |-> "auto_proportional",
     reserve_binance_usdt |-> 0, reserve_okx_usdt |-> 0]

NoOrders == [binance |-> 0, okx |-> 0]

NoCheck == [ran |-> FALSE, raised |-> FALSE, read_ok |-> TRUE, n_actions |-> 0,
            half_sells |-> {}, invoked |-> {}, faulty |-> FALSE]

InitStoreIdle ==
    /\ state_row = StateDefaults
    /\ sell_orders = NoOrders
    /\ buy_orders = 0

InitTransIdle ==
    /\ signal = "up"
    /\ n_checks = 0
    /\ last_check = NoCheck

\* main.py:1095  _CDC_CACHE = {'data': None, 'expires': 0}
NoCdcCache == [data |-> "None", expires |-> [date |-> 0, unit |-> 0]]

\* The scheduler loop not started: no schedules, nothing cached, nothing logged.
InitSchedIdle ==
    /\ schedules = <<>>
    /\ now = [date |-> 1, unit |-> 0]
    /\ config_cache = <<>>
    /\ cache_expiry = [date |-> 1, unit |-> 0]
    /\ last_run_times = <<>>
    /\ last_transition_check = [date |-> 1, unit |-> 0]
    /\ cdc_cache = NoCdcCache
    /\ pause = 0
    /\ loop_alive = TRUE
    /\ restarts = 0
    /\ faults = 0
    /\ active_at_load = {}
    /\ gate_log = <<>>
    /\ last_iter = [ran |-> FALSE]

OrchExecute ==
    \E actions \in SeqsUpTo(OrchActions, MaxBatch) :
      \E env \in [1..Len(actions) -> HandlerOutcomes] :
        /\ Len(all_results) + Len(actions) <= MaxLog
        /\ \E r \in {Execute(actions, OrchHandlers, env, dedupe_cache, "none")} :
               /\ dedupe_cache' = r.cache
               /\ calls' = calls \o r.calls
               /\ all_results' = all_results \o r.results
               /\ last_exec' = [actions |-> actions, results |-> r.results,
                                propagated |-> r.propagated, calls |-> r.calls]
        /\ UNCHANGED <<dec_vars, store_vars, trans_vars, sched_vars>>

InitOrch == InitOrchVars /\ InitDecIdle /\ InitStoreIdle /\ InitTransIdle /\ InitSchedIdle
NextOrch == OrchExecute
SpecOrch == InitOrch /\ [][NextOrch]_vars

\* C1: once a handler has returned SUCCESS for an action with dedupe key k, no
\* handler is invoked again for key k on this orchestrator: every later action with
\* key k (same batch or a later one) yields SKIPPED("duplicate_action"); two actions
\* with one key in one batch, the handler succeeding, give one SUCCESS, one SKIPPED
\* and exactly one handler invocation.
C1_DedupeAtMostOnce ==
    /\ \A i, j \in 1..Len(calls) :
         (i < j /\ calls[i].outcome = "SUCCESS") => calls[j].key # calls[i].key
    /\ \A i, j \in 1..Len(all_results) :
         (i < j /\ all_results[i].status = "SUCCESS"
                /\ all_results[j].dedupe_key = all_results[i].dedupe_key)
         => (all_results[j].status = "SKIPPED" /\ all_results[j].detail = "duplicate_action")
    /\ (/\ Len(last_exec.actions) = 2
        /\ last_exec.actions[1].dedupe_key = last_exec.actions[2].dedupe_key
        /\ last_exec.results[1].status = "SUCCESS")
       => (/\ last_exec.results[2].status = "SKIPPED"
           /\ last_exec.results[2].detail = "duplicate_action"
           /\ Len(last_exec.calls) = 1)

\* C1 witness: a key succeeded in an earlier batch, and the last batch submitted one
\* key twice, the first succeeding and the second skipped as a duplicate.
C1_Witness ==
    /\ Len(last_exec.actions) = 2
    /\ Len(all_results) = 4
    /\ last_exec.actions[1].dedupe_key = last_exec.actions[2].dedupe_key
    /\ last_exec.results[1].status = "SUCCESS"
    /\ last_exec.results[2].detail = "duplicate_action"
    /\ all_results[1].status = "SUCCESS"
    /\ all_results[2].detail = "duplicate_action"
    /\ all_results[1].dedupe_key # last_exec.actions[1].dedupe_key

\* C8: a handler that raises yields FAILED carrying the exception text, a kind with
\* no handler yields FAILED("no_handler") (unless the action was already skipped as a
\* duplicate); nothing propagates out of execute and every action of the decision
\* gets its result, in order.
C8_FailuresIsolated ==
    /\ ~last_exec.propagated
    /\ Len(last_exec.results) = Len(last_exec.actions)
    /\ \A i \in 1..Len(last_exec.results) :
         last_exec.results[i].dedupe_key = last_exec.actions[i].dedupe_key
    /\ \A c \in 1..Len(last_exec.calls) :
         last_exec.calls[c].outcome = "RAISE"
         => (/\ last_exec.results[last_exec.calls[c].pos].status = "FAILED"
             /\ last_exec.results[last_exec.calls[c].pos].detail = "boom")
    /\ \A i \in 1..Len(last_exec.actions) :
         last_exec.actions[i].action_type \notin DOMAIN OrchHandlers
         => (/\ \A c \in 1..Len(last_exec.calls) : last_exec.calls[c].pos # i
             /\ \/ last_exec.results[i].detail = "duplicate_action"
                \/ (last_exec.results[i].status = "FAILED"
                    /\ last_exec.results[i].detail = "no_handler"))

\* C8 witness: the first action's handler raised, the second action was still handled
\* by its handler and succeeded.
C8_Witness ==
    /\ Len(last_exec.actions) = 2
    /\ Len(last_exec.calls) = 2
    /\ last_exec.calls[1].outcome = "RAISE"
    /\ last_exec.results[1].status = "FAILED"
    /\ last_exec.results[1].detail = "boom"
    /\ last_exec.results[2].status = "SUCCESS"

\* C8 witness (second case): an action without handler came first and failed with
\* "no_handler"; the action after it was still handled.
C8_WitnessNoHandler ==
    /\ Len(last_exec.actions) = 2
    /\ last_exec.actions[1].action_type = "SYNC"
    /\ last_exec.results[1].detail = "no_handler"
    /\ Len(last_exec.calls) = 1
    /\ last_exec.calls[1].pos = 2

(***************************************************************************)
(* The clock: [date, unit], the unit being the loop's sleep of 10 seconds.  *)
(***************************************************************************)

SleepSeconds == 10           \* the unit of the model clock
MinuteSeconds == 60
MatchWindowSeconds == 15
TransitionCheckSeconds == 60
CacheTtlMinutes == 5
CdcCacheSeconds == 60
BusinessUtcOffsetHours == 7   \* Asia/Bangkok

UnitsPerMinute == MinuteSeconds \div SleepSeconds
UnitsPerDay == 24 * 60 * UnitsPerMinute

\* seconds between two clock values (datetime subtraction, total_seconds)
SecondsBetween(a, b) == ((a.date - b.date) * UnitsPerDay + (a.unit - b.unit)) * SleepSeconds

\* now.strftime("%H:%M") as <<hour, minute>>
TimeStr(t) == <<(t.unit \div UnitsPerMinute) \div 60, (t.unit \div UnitsPerMinute) % 60>>

\* now.second
SecondOf(t) == (t.unit % UnitsPerMinute) * SleepSeconds

\* t plus a number of seconds (a multiple of the unit)
PlusSeconds(t, secs) == [t EXCEPT !.unit = @ + secs \div SleepSeconds]

\* cdc.py:78, 164  now.astimezone(timezone.utc).date(): the loop's clock is the
\* business timezone (Asia/Bangkok, UTC+7 all year), so the UTC date is the day
\* before until 07:00.
UtcDate(t) ==
    IF t.unit < BusinessUtcOffsetHours * 60 * UnitsPerMinute THEN t.date - 1 ELSE t.date

(***************************************************************************)
(* strategies/cdc.py: CdcDcaStrategy.decide_transition                     *)
(***************************************************************************)

Exchanges == <<"binance", "okx">>

Max0(x) == IF x > 0 THEN x ELSE 0

\* cdc.py:193-199  pct_for(exchange)
pct_for(data, ex) ==
    IF ex = "okx" THEN Max0(data.sell_percent_okx)
    ELSE IF ex = "binance" THEN Max0(data.sell_percent_binance)
    ELSE Max0(data.sell_percent_global)

\* cdc.py:201-211  the exchanges the policy selects
half_sell_exchanges(data) ==
    IF data.half_sell_policy = "binance_only" THEN <<"binance">>
    ELSE IF data.half_sell_policy = "okx_only" THEN <<"okx">>
    ELSE LET nz == SelectSeq(Exchanges, LAMBDA ex : pct_for(data, ex) > 0)
         IN  IF nz = <<>> THEN <<data.active_exchange>> ELSE nz

\* cdc.py:213-233  one HALF_SELL per selected exchange not seen before with pct > 0
RECURSIVE half_sell_loop(_, _, _, _, _, _)
half_sell_loop(ctx_key, rid, data, exs, i, seen) ==
    IF i > Len(exs) THEN <<>>
    ELSE LET ex == exs[i]
             pct == pct_for(data, ex)
         IN  IF ex \in seen \/ pct <= 0
             THEN half_sell_loop(ctx_key, rid, data, exs, i + 1, seen \cup {ex})
             ELSE <<StrategyAction("HALF_SELL", rid,
                        ctx_key \o dedupe_key_for(<<"half_sell", ex, Str(pct)>>),
                        [exchange |-> ex, percent |-> pct])>>
                  \o half_sell_loop(ctx_key, rid, data, exs, i + 1, seen \cup {ex})

half_sell_actions(ctx_key, rid, data) ==
    half_sell_loop(ctx_key, rid, data, half_sell_exchanges(data), 1, {})

\* cdc.py:236-265  one RESERVE_BUY for the global reserve, one per exchange
reserve_buy_actions(ctx_key, rid, data) ==
    <<StrategyAction("RESERVE_BUY", rid,
          ctx_key \o dedupe_key_for(<<"reserve_buy", "global">>),
          [mode |-> "global", exchange |-> "", amount |-> Max0(data.reserve_usdt)])>>
    \o [i \in 1..Len(Exchanges) |->
          LET ex == Exchanges[i]
              amount == IF ex = "binance" THEN data.reserve_binance_usdt
                        ELSE data.reserve_okx_usdt
          IN  StrategyAction("RESERVE_BUY", rid,
                  ctx_key \o dedupe_key_for(<<"reserve_buy", ex, Str(amount)>>),
                  [mode |-> "exchange", exchange |-> ex, amount |-> Max0(amount)])]

\* Mutant: the early return for an unchanged status is missing.
SameStatus_never(data) == FALSE

\* cdc.py:165  `if data.previous_status == data.current_status`
SameStatus(data) == data.previous_status = data.current_status

\* cdc.py:161-188  decide_transition; rid is the uuid make_request_id drew
decide_transition(data, rid) ==
    IF SameStatus(data) THEN <<>>
    ELSE LET ctx_key == dedupe_key_for(<<"cdc-transition", data.previous_status,
                                         data.current_status, Str(UtcDate(data.now))>>)
         IN  IF data.current_status = "down"
             THEN IF ~data.red_epoch_active
                  THEN half_sell_actions(ctx_key, rid, data)
                  ELSE <<>>
             ELSE IF data.current_status = "up"
             THEN reserve_buy_actions(ctx_key, rid, data)
             ELSE <<>>

(***************************************************************************)
(* SpecDecide: the decision functions applied to every input of a bounded   *)
(* input space.                                                             *)
(***************************************************************************)

Statuses == {"up", "down"}
PrevStatuses == Statuses \cup {"None"}
Policies == {"auto_proportional", "binance_only", "okx_only"}

TransitionInputs ==
    [now : {[date |-> 1, unit |-> 0]},
     previous_status : PrevStatuses,
     current_status : Statuses,
     red_epoch_active : BOOLEAN,
     half_sell_policy : Policies,
     sell_percent_binance : {0, 30},
     sell_percent_okx : {0, 40},
     sell_percent_global : {0, 50},
     active_exchange : {"binance", "okx"},
     reserve_usdt : {0, 100},
     reserve_binance_usdt : {0, 50},
     reserve_okx_usdt : {0, 25}]

InitDecide ==
    /\ InitOrchVars
    /\ dec_in \in TransitionInputs
    /\ dec_out = NotDecided
    /\ InitStoreIdle
    /\ InitTransIdle
    /\ InitSchedIdle

DecideTransition ==
    /\ ~dec_out.done
    /\ dec_out' = [done |-> TRUE, actions |-> decide_transition(dec_in, "cdc-transition-1")]
    /\ UNCHANGED <<dec_in, orch_vars, store_vars, trans_vars, sched_vars>>

NextDecide == DecideTransition
SpecDecide == InitDecide /\ [][NextDecide]_vars

\* C10: decide_transition returns an empty action list whenever previous_status
\* equals current_status, whatever the red-epoch flag, policy, sell percents and
\* reserve balances are.
C10_NoTransitionNoActions ==
    (dec_out.done /\ dec_in.previous_status = dec_in.current_status)
    => dec_out.actions = <<>>

\* C10 witness: status "down" twice, epoch inactive, a sell percent configured (the
\* input for which a transition to down would sell), evaluated, nothing returned.
C10_Witness ==
    /\ dec_out.done
    /\ dec_out.actions = <<>>
    /\ dec_in.previous_status = "down"
    /\ dec_in.current_status = "down"
    /\ ~dec_in.red_epoch_active
    /\ dec_in.sell_percent_binance = 30

\* C10 witness (second case): "up" twice with reserves waiting.
C10_WitnessUp ==
    /\ dec_out.done
    /\ dec_out.actions = <<>>
    /\ dec_in.previous_status = "up"
    /\ dec_in.current_status = "up"
    /\ dec_in.reserve_usdt = 100

\* The positions of the RESERVE_BUY actions of a mode and exchange in the decision.
ReserveBuysFor(mode, ex) ==
    {i \in 1..Len(dec_out.actions) :
        /\ dec_out.actions[i].action_type = "RESERVE_BUY"
        /\ dec_out.actions[i].payload.mode = mode
        /\ dec_out.actions[i].payload.exchange = ex}

\* C15: on a transition to up, decide_transition returns exactly one RESERVE_BUY
\* for the global reserve, plus a per-exchange RESERVE_BUY for exactly those
\* exchanges whose per-exchange reserve is non-zero.
C15_ReserveBuyOnlyNonZeroReserves ==
    (dec_out.done /\ dec_in.current_status = "up" /\ dec_in.previous_status # "up")
    => /\ Cardinality(ReserveBuysFor("global", "")) = 1
       /\ Cardinality(ReserveBuysFor("exchange", "binance"))
             = IF dec_in.reserve_binance_usdt # 0 THEN 1 ELSE 0
       /\ Cardinality(ReserveBuysFor("exchange", "okx"))
             = IF dec_in.reserve_okx_usdt # 0 THEN 1 ELSE 0

(***************************************************************************)
(* main.py: strategy state persistence and the periodic transition check   *)
(***************************************************************************)

\* main.py:1117-1171  get_cdc_status_1d at clock t: the cached value while it has
\* not expired; else the candles are fetched (outside any try: a failing fetch
\* raises) and the status they give is cached for 60 seconds ("down" for fewer
\* than 50 candles).
get_cdc_status_1d(t, cache, sig, klines) ==
    IF cache.data # "None" /\ SecondsBetween(t, cache.expires) < 0
    THEN [raised |-> FALSE, status |-> cache.data, cache |-> cache]
    ELSE IF klines = "raise"
    THEN [raised |-> TRUE, status |-> "None", cache |-> cache]
    ELSE IF klines = "few"
    THEN [raised |-> FALSE, status |-> "down",
          cache |-> [data |-> "down", expires |-> PlusSeconds(t, CdcCacheSeconds)]]
    ELSE [raised |-> FALSE, status |-> sig,
          cache |-> [data |-> sig, expires |-> PlusSeconds(t, CdcCacheSeconds)]]

\* main.py:1173-1247  load_strategy_state: the row, or the defaults when the read
\* fails (the exception is logged and swallowed)
load_strategy_state(row, read_ok) == IF read_ok THEN row ELSE StateDefaults

\* main.py:1249-1289  save_strategy_state: upsert of the patch's allowed fields; a
\* failing write is logged and swallowed
save_strategy_state(row, patch, write_ok) ==
    IF write_ok
    THEN [f \in DOMAIN row |-> IF f \in DOMAIN patch THEN patch[f] ELSE row[f]]
    ELSE row

\* Python's `a or b` on integers
OrElse(a, b) == IF a # 0 THEN a ELSE b

\* main.py:2805-2818  the TransitionDecisionInput built from the loaded state
TransitionInputOf(state, prev, curr, t) ==
    [now |-> t,
     previous_status |-> prev,
     current_status |-> curr,
     red_epoch_active |-> state.red_epoch_active # 0,
     half_sell_policy |-> state.half_sell_policy,
     sell_percent_binance |-> OrElse(state.sell_percent_binance, state.sell_percent),
     sell_percent_okx |-> OrElse(state.sell_percent_okx, state.sell_percent),
     sell_percent_global |-> state.sell_percent,
     active_exchange |-> state.exchange,
     reserve_usdt |-> state.reserve_usdt,
     reserve_binance_usdt |-> state.reserve_binance_usdt,
     reserve_okx_usdt |-> state.reserve_okx_usdt]

\* main.py:2827-2830  the handler table of the transition check
TransitionHandlers ==
    [k \in {"HALF_SELL", "RESERVE_BUY"} |->
        IF k = "HALF_SELL" THEN "handle_half_sell_action" ELSE "handle_reserve_buy_action"]

\* The actions the check would decide for what it loads and computes.
TransitionActions(row, read_ok, curr, t, rid) ==
    LET state == load_strategy_state(row, read_ok)
    IN  decide_transition(TransitionInputOf(state, state.last_cdc_status, curr, t), rid)

\* Mutant: the red epoch is not recorded after a transition to down.
EpochPatch_forget(curr) == [last_cdc_status |-> curr]

\* main.py:2843-2852  the state patch after the actions ran
EpochPatch(curr) ==
    [last_cdc_status |-> curr, red_epoch_active |-> IF curr = "down" THEN 1 ELSE 0]

\* main.py:2778-2854  check_cdc_transition_and_act.  sig is the status the candles
\* give; env: read_ok (the state read), klines ("ok" or "raise": the candle fetch of
\* get_cdc_status_1d), henv (what each handler call meets), write_ok / write2_ok
\* (the state writes).  w is the world: the strategy_state row, the order counts,
\* the signal cache and the wall clock.  Returns the new orchestrator cache, world
\* and what happened.
check_cdc_transition_and_act(t, sig, cache, w0, env, rid) ==
    LET state == load_strategy_state(w0.row, env.read_ok)
        prev == state.last_cdc_status
        f == get_cdc_status_1d(w0.clock, w0.cdc, sig, env.klines)
        curr == f.status
        w == [w0 EXCEPT !.cdc = f.cache]
        same == [raised |-> FALSE, cache |-> cache, w |-> w, prev |-> prev,
                 actions |-> <<>>, results |-> <<>>, calls |-> <<>>]
    IN  IF state.cdc_enabled = 0 THEN [same EXCEPT !.w = w0]
        ELSE IF f.raised THEN [same EXCEPT !.raised = TRUE]
        ELSE IF prev = curr THEN same
        ELSE LET actions == decide_transition(TransitionInputOf(state, prev, curr, t), rid)
             IN  IF actions = <<>>
                 THEN LET row1 == save_strategy_state(w.row, [last_cdc_status |-> curr],
                                                      env.write_ok)
                          row2 == IF curr = "up"
                                  THEN save_strategy_state(row1, [red_epoch_active |-> 0],
                                                           env.write2_ok)
                                  ELSE row1
                      IN  [same EXCEPT !.w = [w EXCEPT !.row = row2]]
                 ELSE LET r == Execute(actions, TransitionHandlers, env.henv, cache, w)
                          row1 == save_strategy_state(r.w.row, EpochPatch(curr), env.write_ok)
                      IN  [raised |-> FALSE, cache |-> r.cache,
                           w |-> [r.w EXCEPT !.row = row1], prev |-> prev,
                           actions |-> actions, results |-> r.results, calls |-> r.calls]

(***************************************************************************)
(* SpecTrans: periodic transition checks of one process while the computed  *)
(* signal flips and store reads / writes and exchange calls may fail.       *)
(***************************************************************************)

MaxChecks == 3     \* transition checks per behaviour

TransRows ==
    {[StateDefaults EXCEPT !.last_cdc_status = l, !.sell_percent_binance = 30,
                           !.sell_percent_okx = po, !.reserve_usdt = rg,
                           !.reserve_okx_usdt = ro] :
        l \in {"None", "up"}, po \in {0, 40}, rg \in {0, 100}, ro \in {0}}

InitTrans ==
    /\ InitOrchVars
    /\ InitDecIdle
    /\ state_row \in TransRows
    /\ sell_orders = NoOrders
    /\ buy_orders = 0
    /\ signal \in Statuses
    /\ n_checks = 0
    /\ last_check = NoCheck
    /\ InitSchedIdle

World == [row |-> state_row, sells |-> sell_orders, buys |-> buy_orders,
          cdc |-> cdc_cache, clock |-> now]

\* The environments that make a difference to one handler call: a half-sell that
\* stops before its order fails the same way whether skipped or in error, and a
\* reserve-buy without reserve returns before it meets the exchange.
EnvChoices(action, row) ==
    IF action.action_type = "HALF_SELL"
    THEN {"executed", "skipped", "error_after"}
    ELSE IF action.action_type = "RESERVE_BUY"
              /\ row[ReserveField(action.payload.mode, action.payload.exchange)] <= 0
    THEN {"skipped"}
    ELSE ExecOutcomes

HandlerEnvs(actions, row) ==
    {h \in [1..Len(actions) -> ExecOutcomes] :
        \A i \in 1..Len(actions) : h[i] \in EnvChoices(actions[i], row)}

\* The (exchange, percent) pairs of the HALF_SELL actions among the actions.
HalfSellsOf(actions) ==
    {<<actions[i].payload.exchange, actions[i].payload.percent>> :
        i \in {j \in 1..Len(actions) : actions[j].action_type = "HALF_SELL"}}

\* The (exchange, percent) pairs of the HALF_SELL actions whose handler the
\* orchestrator invoked (calls: its invocation history for these actions).
InvokedHalfSells(actions, invocations) ==
    {<<actions[invocations[c].pos].payload.exchange,
       actions[invocations[c].pos].payload.percent>> :
        c \in {k \in 1..Len(invocations) :
                  actions[invocations[k].pos].action_type = "HALF_SELL"}}

\* main.py:2891-2897  one periodic transition check of the scheduler loop; an
\* exception of the check is logged by the loop and the loop goes on.  The
\* environment is drawn per call: choices the call never reaches are not drawn.
CheckTransition ==
    /\ n_checks < MaxChecks
    /\ \E read_ok \in BOOLEAN, klines \in {"ok", "raise"} :
        LET acts == IF klines = "raise" THEN <<>>
                    ELSE TransitionActions(state_row, read_ok, signal, now, "rid")
            changed == klines = "ok" /\ load_strategy_state(state_row, read_ok).cdc_enabled # 0
                       /\ load_strategy_state(state_row, read_ok).last_cdc_status # signal
        IN  \E henv \in HandlerEnvs(acts, state_row),
               write_ok \in (IF changed THEN BOOLEAN ELSE {TRUE}),
               write2_ok \in (IF changed /\ acts = <<>> /\ signal = "up"
                              THEN BOOLEAN ELSE {TRUE}) :
              \E r \in {check_cdc_transition_and_act(now, signal, dedupe_cache, World,
                            [read_ok |-> read_ok, klines |-> klines, henv |-> henv,
                             write_ok |-> write_ok, write2_ok |-> write2_ok], "rid")} :
                  /\ dedupe_cache' = r.cache
                  /\ state_row' = r.w.row
                  /\ sell_orders' = r.w.sells
                  /\ buy_orders' = r.w.buys
                  /\ last_check' = [ran |-> TRUE, raised |-> r.raised,
                                    read_ok |-> read_ok, n_actions |-> Len(r.actions),
                                    half_sells |-> HalfSellsOf(r.actions),
                                    invoked |-> InvokedHalfSells(r.actions, r.calls),
                                    faulty |-> \/ last_check.faulty
                                               \/ ~read_ok \/ klines = "raise"
                                               \/ ~write_ok \/ ~write2_ok]
    /\ n_checks' = n_checks + 1
    /\ UNCHANGED <<calls, all_results, last_exec, dec_vars, signal, sched_vars>>

\* The candles change and the computed signal flips; a flip to "down" starts a new
\* down period, for which the sell orders are counted afresh.
SignalFlip ==
    /\ signal' = IF signal = "up" THEN "down" ELSE "up"
    /\ sell_orders' = IF signal' = "down" THEN NoOrders ELSE sell_orders
    /\ UNCHANGED <<orch_vars, dec_vars, state_row, buy_orders, n_checks, last_check,
                   sched_vars>>

NextTrans == CheckTransition \/ SignalFlip
SpecTrans == InitTrans /\ [][NextTrans]_vars

C2_Witness ==
    /\ signal = "down"
    /\ sell_orders["binance"] = 1
    /\ last_check.ran
    /\ state_row.red_epoch_active = 1
    /\ state_row.last_cdc_status = "down"

\* The sell percent configured for an exchange in the strategy_state row.
ConfiguredPercent(row, ex) ==
    IF ex = "okx" THEN row.sell_percent_okx ELSE row.sell_percent_binance

\* C14: on a transition to down with the red epoch inactive, the transition check
\* produces a HALF_SELL for an exchange only if the sell percent configured for
\* that exchange is > 0, and the action carries that percent (with binance 30 and
\* okx 0 under auto_proportional: one HALF_SELL, binance 30, none for okx).
C14_HalfSellOnlyConfiguredPercent ==
    (last_check.ran /\ last_check.read_ok)
        => \A hs \in last_check.half_sells :
              /\ ConfiguredPercent(state_row, hs[1]) > 0
              /\ hs[2] = ConfiguredPercent(state_row, hs[1])

(***************************************************************************)
(* strategies/cdc.py: CdcDcaStrategy.decide_weekly_dca                     *)
(***************************************************************************)

\* Mutant: the enabled flag is not looked at.
WeeklyKind_ignores_enabled(cdc_enabled, cdc_status) ==
    IF cdc_status = "up" THEN "DCA_BUY" ELSE "RESERVE_MOVE"

\* cdc.py:130-135 / 277-282  the weekly rule for one leg
WeeklyKind(cdc_enabled, cdc_status) ==
    IF ~cdc_enabled THEN "DCA_BUY"
    ELSE IF cdc_status = "up" THEN "DCA_BUY" ELSE "RESERVE_MOVE"

\* cdc.py:124-159  _global_dca_action
global_dca_action(ctx_key, rid, data) ==
    LET kind == WeeklyKind(data.cdc_enabled, data.cdc_status)
    IN  StrategyAction(kind, rid, ctx_key \o dedupe_key_for(<<"global", kind>>),
            [amount |-> data.amount, schedule_id |-> data.schedule_id,
             cdc_status |-> data.cdc_status, mode |-> data.mode])

\* Mutant: the key of a leg does not name the leg's exchange.
exchange_dca_action_shared_key(ctx_key, rid, ex, amount, data) ==
    LET kind == WeeklyKind(data.cdc_enabled, data.cdc_status)
    IN  StrategyAction(kind, rid, ctx_key \o dedupe_key_for(<<kind, Str(amount)>>),
            [exchange |-> ex, amount |-> amount, cdc_status |-> data.cdc_status])

\* cdc.py:267-301  _exchange_dca_action
exchange_dca_action(ctx_key, rid, ex, amount, data) ==
    LET kind == WeeklyKind(data.cdc_enabled, data.cdc_status)
    IN  StrategyAction(kind, rid, ctx_key \o dedupe_key_for(<<ex, kind, Str(amount)>>),
            [exchange |-> ex, amount |-> amount, cdc_status |-> data.cdc_status])

\* Mutant: a leg is emitted whatever its amount.
LegSelected_any_amount(mode, ex, amount) == mode \in {ex, "both"}

\* cdc.py:102, 112  `data.mode in (ex, "both") and amount > 0`
LegSelected(mode, ex, amount) == mode \in {ex, "both"} /\ amount > 0

\* cdc.py:75-122  decide_weekly_dca
decide_weekly_dca(data, rid) ==
    LET ctx_key == dedupe_key_for(<<"weekly-dca", Str(data.schedule_id), Str(UtcDate(data.now))>>)
    IN  IF data.mode = "global" THEN <<global_dca_action(ctx_key, rid, data)>>
        ELSE (IF LegSelected(data.mode, "binance", data.binance_amount)
              THEN <<exchange_dca_action(ctx_key, rid, "binance", data.binance_amount, data)>>
              ELSE <<>>)
             \o
             (IF LegSelected(data.mode, "okx", data.okx_amount)
              THEN <<exchange_dca_action(ctx_key, rid, "okx", data.okx_amount, data)>>
              ELSE <<>>)

(***************************************************************************)
(* SpecWeekly: decide_weekly_dca applied to every input of a bounded input  *)
(* space.                                                                   *)
(***************************************************************************)

Modes == {"global", "binance", "okx", "both"}

\* 09:00 of date 1 on the loop's clock
NineOClock == [date |-> 1, unit |-> 9 * 60 * UnitsPerMinute]

\* main.py:2619-2629  the WeeklyDcaDecisionInput records gate_weekly_dca builds
WeeklyInputs ==
    [now : {NineOClock},
     schedule_id : {1, 2},
     mode : Modes,
     amount : {0, 50},
     cdc_status : Statuses \cup {"disabled"},
     cdc_enabled : BOOLEAN,
     binance_amount : {0, 60},
     okx_amount : {0, 40}]

InitWeekly ==
    /\ InitOrchVars
    /\ dec_in \in WeeklyInputs
    /\ dec_out = NotDecided
    /\ InitStoreIdle
    /\ InitTransIdle
    /\ InitSchedIdle

DecideWeekly ==
    /\ ~dec_out.done
    /\ dec_out' = [done |-> TRUE, actions |-> decide_weekly_dca(dec_in, "cdc-weekly-1")]
    /\ UNCHANGED <<dec_in, orch_vars, store_vars, trans_vars, sched_vars>>

NextWeekly == DecideWeekly
SpecWeekly == InitWeekly /\ [][NextWeekly]_vars

\* C11: in global mode decide_weekly_dca returns exactly one action for every
\* input: DCA_BUY when the strategy is disabled (whatever the signal) or the signal
\* is up, RESERVE_MOVE when the strategy is enabled and the signal is not up; the
\* action carries the schedule's amount and id.
C11_GlobalOneAction ==
    (dec_out.done /\ dec_in.mode = "global")
    => /\ Len(dec_out.actions) = 1
       /\ dec_out.actions[1].action_type
            = (IF ~dec_in.cdc_enabled \/ dec_in.cdc_status = "up"
               THEN "DCA_BUY" ELSE "RESERVE_MOVE")
       /\ dec_out.actions[1].payload.amount = dec_in.amount
       /\ dec_out.actions[1].payload.schedule_id = dec_in.schedule_id

\* C11 witness: amount 50, signal up: one DCA_BUY of 50.
C11_Witness ==
    /\ dec_out.done
    /\ dec_in.mode = "global"
    /\ dec_in.cdc_enabled
    /\ dec_in.cdc_status = "up"
    /\ dec_in.amount = 50
    /\ Len(dec_out.actions) = 1
    /\ dec_out.actions[1].action_type = "DCA_BUY"
    /\ dec_out.actions[1].payload.amount = 50

\* C11 witness (second case): strategy disabled, signal down: still a DCA_BUY.
C11_WitnessDisabled ==
    /\ dec_out.done
    /\ dec_in.mode = "global"
    /\ ~dec_in.cdc_enabled
    /\ dec_in.cdc_status = "down"
    /\ dec_out.actions[1].action_type = "DCA_BUY"

\* The legs a mode selects with their configured amounts.
LegAmount(data, ex) == IF ex = "binance" THEN data.binance_amount ELSE data.okx_amount

\* C13: in the modes binance, okx and both decide_weekly_dca emits exactly one
\* action for each exchange leg the mode selects whose amount is > 0, none for a leg
\* with amount 0 or a leg the mode does not select; each leg's kind follows the
\* weekly rule and the action carries the leg's exchange and amount.
C13_OneActionPerLeg ==
    (dec_out.done /\ dec_in.mode # "global")
    => \A ex \in {"binance", "okx"} :
         LET legs == {i \in 1..Len(dec_out.actions) :
                        dec_out.actions[i].payload.exchange = ex}
         IN  IF dec_in.mode \in {ex, "both"} /\ LegAmount(dec_in, ex) > 0
             THEN /\ Cardinality(legs) = 1
                  /\ \A i \in legs :
                       /\ dec_out.actions[i].payload.amount = LegAmount(dec_in, ex)
                       /\ dec_out.actions[i].action_type
                            = (IF ~dec_in.cdc_enabled \/ dec_in.cdc_status = "up"
                               THEN "DCA_BUY" ELSE "RESERVE_MOVE")
             ELSE legs = {}

\* C13 witness: mode both, binance 60 and okx 0, signal down: one RESERVE_MOVE, for
\* binance.
C13_Witness ==
    /\ dec_out.done
    /\ dec_in.mode = "both"
    /\ dec_in.cdc_enabled
    /\ dec_in.cdc_status = "down"
    /\ dec_in.binance_amount = 60
    /\ dec_in.okx_amount = 0
    /\ Len(dec_out.actions) = 1
    /\ dec_out.actions[1].action_type = "RESERVE_MOVE"
    /\ dec_out.actions[1].payload.exchange = "binance"

(***************************************************************************)
(* main.py: gate_weekly_dca                                                *)
(***************************************************************************)

\* main.py:2694-2697  the handler table of the global mode
GlobalHandlers ==
    [k \in {"DCA_BUY", "RESERVE_MOVE"} |->
        IF k = "DCA_BUY" THEN "handle_global_buy" ELSE "handle_global_reserve"]

\* main.py:2595-2776  gate_weekly_dca for one schedule row.  env: read_ok (the state
\* read), klines ("ok" or "raise": the candle fetch of get_cdc_status_1d), henv
\* (what each handler call meets).  sig is the status the candles give, w0 the
\* world.  In the modes other than global the handler table names
\* handle_exchange_reserve, which is defined inside handle_exchange_buy after its
\* return (main.py:2730), so building the table raises NameError before execute.
gate_weekly_dca(t, schedule, extra, cache, w0, sig, env, rid) ==
    LET state == load_strategy_state(w0.row, env.read_ok)
        mode == IF extra THEN schedule.exchange_mode ELSE "global"
        cdc_enabled == state.cdc_enabled = 1
        f == get_cdc_status_1d(w0.clock, w0.cdc, sig, env.klines)
        w == IF cdc_enabled THEN [w0 EXCEPT !.cdc = f.cache] ELSE w0
        quiet == [raised |-> FALSE, fetch_raised |-> FALSE, cache |-> cache, w |-> w,
                  actions |-> <<>>, results |-> <<>>]
    IN  IF cdc_enabled /\ f.raised
        THEN [quiet EXCEPT !.raised = TRUE, !.fetch_raised = TRUE]
        ELSE LET cdc_status == IF cdc_enabled THEN f.status ELSE "up"
                 actions == decide_weekly_dca(
                     [now |-> t, schedule_id |-> schedule.id, mode |-> mode,
                      amount |-> schedule.purchase_amount,
                      cdc_status |-> IF cdc_enabled THEN cdc_status ELSE "disabled",
                      cdc_enabled |-> cdc_enabled,
                      binance_amount |-> IF extra THEN schedule.binance_amount ELSE 0,
                      okx_amount |-> IF extra THEN schedule.okx_amount ELSE 0], rid)
             IN  IF mode = "global"
                 THEN IF actions = <<>> THEN quiet
                      ELSE LET r == Execute(actions, GlobalHandlers, env.henv, cache, w)
                           IN  [raised |-> FALSE, fetch_raised |-> FALSE,
                                cache |-> r.cache, w |-> r.w,
                                actions |-> actions, results |-> r.results]
                 ELSE [quiet EXCEPT !.raised = TRUE, !.actions = actions]

(***************************************************************************)
(* main.py: run_loop_scheduler                                             *)
(***************************************************************************)

Weekdays == <<"monday", "tuesday", "wednesday", "thursday", "friday", "saturday", "sunday">>

\* now.strftime("%A").lower(); date 1 is a monday
DayName(t) == Weekdays[((t.date - 1) % 7) + 1]

\* datetime.strptime(s, "%H:%M") accepts s
ParsesAsTime(tm) == tm[1] \in 0..23 /\ tm[2] \in 0..59

\* main.py:961-979  validate_schedule: raises ValueError for a time that does not
\* parse or a day that is no weekday
validate_schedule(schedule_time_str, schedule_days) ==
    [raised |-> ~ParsesAsTime(schedule_time_str)
                \/ \E d \in schedule_days : \A i \in DOMAIN Weekdays : Weekdays[i] # d]

Abs(x) == IF x < 0 THEN -x ELSE x

\* main.py:2919-2924  the schedule is due: today is one of its days and its time is
\* within the match window of the current HH:MM
IsDue(schedule, t) ==
    LET cur == TimeStr(t)
        time_diff == Abs((cur[1] * 60 + cur[2]) * 60
                         - (schedule.schedule_time[1] * 60 + schedule.schedule_time[2]) * 60)
    IN  DayName(t) \in schedule.schedule_day /\ time_diff <= MatchWindowSeconds

\* main.py:2925-2927  `last_run != current_schedule_time` is false
AlreadyRan(lrt, id, current_schedule_time) ==
    id \in DOMAIN lrt /\ lrt[id] = current_schedule_time

\* Mutant: the load does not filter on is_active.
ActiveFilter_all(row) == TRUE

\* main.py:2877  `WHERE is_active = 1`
ActiveFilter(row) == row.is_active = 1

\* main.py:2874-2882  the rows the load returns, in table order
QuerySchedules(table) ==
    LET sel == SelectSeq(table, ActiveFilter)
    IN  [i \in 1..Len(sel) |->
            [id |-> sel[i].id, schedule_time |-> sel[i].schedule_time,
             schedule_day |-> sel[i].schedule_day,
             purchase_amount |-> sel[i].purchase_amount,
             exchange_mode |-> sel[i].exchange_mode,
             binance_amount |-> sel[i].binance_amount,
             okx_amount |-> sel[i].okx_amount]]

\* Mutant: a delivery failure is not caught inside send_line_message.
send_line_message_unguarded(e) == [raised |-> e # "ok", sent |-> e = "ok"]

\* notify.py:221-240  send_line_message: every exception is caught, False returned
send_line_message(e) == [raised |-> FALSE, sent |-> e = "ok"]

NoGate == [calls |-> 0, returns |-> 0, success |-> 0, buys |-> 0, incs |-> 0,
           prior |-> FALSE]

\* The history entry of one gate_weekly_dca call: w0 is the world before the call.
LogGate(entry, g, w0) ==
    [calls |-> entry.calls + 1,
     returns |-> entry.returns + (IF g.raised THEN 0 ELSE 1),
     success |-> entry.success
                 + (IF Len(g.results) > 0 /\ g.results[1].status = "SUCCESS" THEN 1 ELSE 0),
     buys |-> entry.buys + (g.w.buys - w0.buys),
     incs |-> entry.incs + (IF g.w.row.reserve_usdt > w0.row.reserve_usdt THEN 1 ELSE 0),
     prior |-> entry.prior]

\* main.py:2906-2942  the for loop over config_cache from position i on.  st carries
\* last_run_times, the orchestrator cache, the world, the sleeps taken and what
\* happened; an exception (error # "none") leaves the loop.  The wall clock of a
\* gate call is t plus the sleeps taken after the schedules gated before it; unmet
\* tells that a failing fetch was drawn for a call that did not fetch.
RECURSIVE ScheduleLoop(_, _, _, _, _, _)
ScheduleLoop(cfg, t, sig, genv, i, st) ==
    IF i > Len(cfg) \/ st.error # "none" THEN st
    ELSE LET schedule == cfg[i]
             id == schedule.id
             v == validate_schedule(schedule.schedule_time, schedule.schedule_day)
             current_schedule_time == <<t.date, schedule.schedule_time>>
         IN  IF v.raised THEN [st EXCEPT !.error = "validation"]
             ELSE IF ~IsDue(schedule, t)
                     \/ AlreadyRan(st.last_run_times, id, current_schedule_time)
             THEN ScheduleLoop(cfg, t, sig, genv, i + 1, st)
             ELSE LET w0 == [st.w EXCEPT !.clock = [t EXCEPT !.unit = @ + st.pause]]
                      g == gate_weekly_dca(t, schedule,
                               schedule.exchange_mode # "global",
                               st.cache, w0, sig, genv[i], "rid")
                      st1 == [st EXCEPT !.cache = g.cache, !.w = g.w,
                                 !.unmet = @ \/ (genv[i].klines = "raise" /\ ~g.fetch_raised),
                                 !.log[id][t.date] = LogGate(@, g, st.w),
                                 !.gated = @ \cup {id},
                                 !.acted = IF g.actions # <<>> THEN @ \cup {id} ELSE @]
                  IN  IF g.raised THEN [st1 EXCEPT !.error = "gate"]
                      ELSE ScheduleLoop(cfg, t, sig, genv, i + 1,
                             [st1 EXCEPT
                                !.last_run_times =
                                    [k \in DOMAIN @ \cup {id} |->
                                        IF k = id THEN current_schedule_time ELSE @[k]],
                                !.pause = @ + (MinuteSeconds - (SecondOf(t) % MinuteSeconds))
                                              \div SleepSeconds])

(***************************************************************************)
(* SpecSched: one scheduler process polling the clock while time passes,    *)
(* schedules are switched on and off, the process is restarted and the      *)
(* store, the exchange and the notification channel fail now and then.      *)
(***************************************************************************)

MaxUnits == 3       \* 10-second units of each day the behaviours cover
MaxDays == 2        \* calendar dates
MaxRestarts == 1    \* process restarts
MaxFaults == 2      \* failures the environment injects per behaviour

\* The covered part of a day starts at 08:59:50, one iteration before 09:00.
WindowStart == (9 * 60) * UnitsPerMinute - 1

Ids == {1, 2}
Dates == 1..MaxDays

ScheduleRow(id, time, days, mode) ==
    [id |-> id, schedule_time |-> time, schedule_day |-> days, purchase_amount |-> 100,
     exchange_mode |-> mode, binance_amount |-> 60, okx_amount |-> 40, is_active |-> 1]

\* The schedules tables: one 09:00 schedule, global or split over both exchanges;
\* two 09:00 schedules of which one has a time ("25:00") or a day that does not
\* validate, in either position.
ScheduleTables ==
    {<<ScheduleRow(1, <<9, 0>>, {"monday", "tuesday"}, "global")>>,
     <<ScheduleRow(1, <<9, 0>>, {"monday", "tuesday"}, "both")>>,
     <<ScheduleRow(1, <<25, 0>>, {"monday", "tuesday"}, "global"),
       ScheduleRow(2, <<9, 0>>, {"monday", "tuesday"}, "global")>>,
     <<ScheduleRow(1, <<9, 0>>, {"monday", "tuesday"}, "global"),
       ScheduleRow(2, <<9, 0>>, {"funday"}, "global")>>}

NoIter == [ran |-> FALSE, error |-> "none", gated |-> {}, acted |-> {}, checked |-> FALSE]

\* main.py:89, 2859-2863  a process start: the orchestrator and the loop's locals
StartProcess(t) ==
    /\ dedupe_cache' = {}
    /\ config_cache' = <<>>
    /\ cache_expiry' = t
    /\ last_run_times' = <<>>
    /\ last_transition_check' = [t EXCEPT !.unit = @ - TransitionCheckSeconds \div SleepSeconds]
    /\ cdc_cache' = NoCdcCache
    /\ pause' = 0
    /\ loop_alive' = TRUE

InitSched ==
    /\ InitDecIdle
    /\ calls = <<>>
    /\ all_results = <<>>
    /\ last_exec = NoExec
    /\ signal \in Statuses
    /\ state_row = [StateDefaults EXCEPT !.last_cdc_status = signal,
                                         !.red_epoch_active = IF signal = "down" THEN 1 ELSE 0]
    /\ sell_orders = NoOrders
    /\ buy_orders = 0
    /\ n_checks = 0
    /\ last_check = NoCheck
    /\ schedules \in ScheduleTables
    /\ now = [date |-> 1, unit |-> WindowStart]
    /\ dedupe_cache = {}
    /\ config_cache = <<>>
    /\ cache_expiry = now
    /\ last_run_times = <<>>
    /\ last_transition_check = [now EXCEPT !.unit = @ - TransitionCheckSeconds \div SleepSeconds]
    /\ cdc_cache = NoCdcCache
    /\ pause = 0
    /\ loop_alive = TRUE
    /\ restarts = 0
    /\ faults = 0
    /\ active_at_load = {}
    /\ gate_log = [id \in Ids |-> [d \in Dates |-> NoGate]]
    /\ last_iter = NoIter

NominalOutcome(choices) == IF "executed" \in choices THEN "executed" ELSE "skipped"

B2N(b) == IF b THEN 1 ELSE 0

\* The environments one transition check can meet (choices the call reaches);
\* n_faults counts the store and handler failures among them.
TransEnvs(row, sig, t) ==
    UNION {
        LET acts == IF klines = "raise" THEN <<>>
                    ELSE TransitionActions(row, read_ok, sig, t, "rid")
            changed == klines = "ok" /\ load_strategy_state(row, read_ok).cdc_enabled # 0
                       /\ load_strategy_state(row, read_ok).last_cdc_status # sig
        IN  {[read_ok |-> read_ok, klines |-> klines, henv |-> henv,
              write_ok |-> write_ok, write2_ok |-> write2_ok,
              n_faults |-> B2N(~read_ok) + B2N(~write_ok)
                           + B2N(~write2_ok)
                           + Cardinality({i \in 1..Len(acts) :
                                 henv[i] # NominalOutcome(EnvChoices(acts[i], row))})] :
                henv \in HandlerEnvs(acts, row),
                write_ok \in (IF changed THEN BOOLEAN ELSE {TRUE}),
                write2_ok \in (IF changed /\ acts = <<>> /\ sig = "up"
                               THEN BOOLEAN ELSE {TRUE})}
        : read_ok \in BOOLEAN, klines \in {"ok", "raise"}}

\* In SpecSched the transition check meets a failing candle fetch, but a healthy
\* strategy_state store (its failures are the subject of SpecTrans).
SchedTransEnvs(row, sig, t) ==
    {e \in TransEnvs(row, sig, t) : e.read_ok /\ e.write_ok /\ e.write2_ok}

QuietTransEnv ==
    [read_ok |-> TRUE, klines |-> "ok", henv |-> <<>>, write_ok |-> TRUE,
     write2_ok |-> TRUE, n_faults |-> 0]

QuietGateEnv == [read_ok |-> TRUE, klines |-> "ok", henv |-> <<"executed">>, n_faults |-> 0]

\* The environments one gate_weekly_dca call can meet (choices the call reaches):
\* the candles are fetched only with the strategy enabled, a handler runs only in
\* global mode, a reserve move meets the store only, and a failing state read
\* shows only when the row's enabled flag differs from the default.
GateEnvs(schedule, row, sig) ==
    UNION {
        LET enabled == load_strategy_state(row, read_ok).cdc_enabled = 1
            kind == WeeklyKind(enabled, sig)
        IN  {[read_ok |-> read_ok, klines |-> klines, henv |-> <<h>>,
              n_faults |-> B2N(~read_ok) + B2N(h # "executed")] :
                klines \in (IF enabled THEN {"ok", "raise"} ELSE {"ok"}),
                h \in (IF schedule.exchange_mode # "global" THEN {"executed"}
                       ELSE IF kind = "DCA_BUY"
                       THEN {"executed", "error_before", "error_after"}
                       ELSE {"executed", "error_before"})}
        : read_ok \in (IF row.cdc_enabled = StateDefaults.cdc_enabled
                        THEN {TRUE} ELSE BOOLEAN)}

\* The cached schedules that validate, are due at t and have not run for t's date.
DueNow(cfg, t, lrt) ==
    {i \in 1..Len(cfg) :
        /\ ~validate_schedule(cfg[i].schedule_time, cfg[i].schedule_day).raised
        /\ IsDue(cfg[i], t)
        /\ ~AlreadyRan(lrt, cfg[i].id, <<t.date, cfg[i].schedule_time>>)}

\* One environment per cached schedule: drawn for the schedules that are due.
LoopGateEnvs(cfg, t, lrt, row, sig) ==
    {g \in [1..Len(cfg) -> UNION {GateEnvs(cfg[i], row, sig) : i \in 1..Len(cfg)}
                           \cup {QuietGateEnv}] :
        \A i \in 1..Len(cfg) :
            IF i \in DueNow(cfg, t, lrt) THEN g[i] \in GateEnvs(cfg[i], row, sig)
            ELSE g[i] = QuietGateEnv}

RECURSIVE SumFaults(_, _)
SumFaults(g, i) == IF i > Len(g) THEN 0 ELSE g[i].n_faults + SumFaults(g, i + 1)

\* The failures one iteration meets: a store that is down at the reload, an outage
\* of the exchange (however many candle fetches of the iteration it fails), the
\* store and handler failures of the check and of the gates, a notification that
\* cannot be delivered.
IterationFaults(db, tenv, genv, line) ==
    B2N(db = "down")
    + B2N(tenv.klines = "raise" \/ \E i \in DOMAIN genv : genv[i].klines = "raise")
    + tenv.n_faults + SumFaults(genv, 1) + B2N(line = "fail")

\* main.py:2872-2884  the cache refresh is due
NeedsRefresh(t, expiry, cfg) == SecondsBetween(t, expiry) >= 0 \/ cfg = <<>>

\* main.py:2893  the transition check is due
CheckDue(t, last) == SecondsBetween(t, last) >= TransitionCheckSeconds

\* main.py:2866-2949  one iteration of the while loop at clock t.  env: db (the
\* store when the cache is reloaded), tenv (the transition check's environment),
\* genv (one environment per cached schedule).  The S4 tick (main.py:2899-2904)
\* runs in its own try and touches none of the state modelled here.
LoopBody(t, env) ==
    LET need == NeedsRefresh(t, cache_expiry, config_cache)
        base == [cfg |-> config_cache, expiry |-> cache_expiry, loaded |-> active_at_load,
                 ltc |-> last_transition_check, last_run_times |-> last_run_times,
                 cache |-> dedupe_cache, w |-> World, log |-> gate_log, pause |-> 0,
                 error |-> "none", gated |-> {}, acted |-> {}, unmet |-> FALSE,
                 checked |-> FALSE]
    IN  IF need /\ env.db = "down" THEN [base EXCEPT !.error = "store"]
        ELSE LET cfg == IF need THEN QuerySchedules(schedules) ELSE config_cache
                 s1 == IF need
                       THEN [base EXCEPT
                               !.cfg = cfg,
                               !.expiry = [t EXCEPT !.unit = @ + CacheTtlMinutes * UnitsPerMinute],
                               !.loaded = {schedules[i].id : i \in
                                              {j \in DOMAIN schedules : schedules[j].is_active = 1}}]
                       ELSE base
             IN  IF cfg = <<>> THEN s1
                 ELSE LET due == CheckDue(t, last_transition_check)
                          c == check_cdc_transition_and_act(t, signal, dedupe_cache,
                                                            World, env.tenv, "rid")
                          s2 == IF ~due THEN s1
                                ELSE [s1 EXCEPT !.cache = c.cache, !.w = c.w,
                                                !.checked = TRUE,
                                                !.ltc = IF c.raised THEN @ ELSE t,
                                                !.unmet = env.tenv.klines = "raise"
                                                          /\ ~c.raised]
                      IN  ScheduleLoop(cfg, t, signal, env.genv, 1, s2)

\* One iteration: the body, then `sleep(10)`; on an exception the except clause
\* (main.py:2946-2949) logs, calls send_line_message and sleeps.
LoopIteration ==
    /\ loop_alive
    /\ pause = 0
    /\ LET need == NeedsRefresh(now, cache_expiry, config_cache)
           cfg == IF need THEN QuerySchedules(schedules) ELSE config_cache
       IN  \E db \in (IF need THEN {"ok", "down"} ELSE {"ok"}) :
           \E tenv \in (IF db = "ok" /\ cfg # <<>> /\ CheckDue(now, last_transition_check)
                        THEN SchedTransEnvs(state_row, signal, now)
                        ELSE {QuietTransEnv}) :
           \E genv \in (IF db = "ok" THEN LoopGateEnvs(cfg, now, last_run_times, state_row, signal)
                        ELSE {[i \in 1..Len(cfg) |-> QuietGateEnv]}) :
           \E line \in {"ok", "fail"} :
             LET n == IterationFaults(db, tenv, genv, line)
             IN  /\ faults + n <= MaxFaults
                 /\ \E r \in {LoopBody(now, [db |-> db, tenv |-> tenv, genv |-> genv])} :
                      /\ r.error = "none" => line = "ok"
                      /\ ~r.unmet
                      /\ cdc_cache' = r.w.cdc
                      /\ config_cache' = r.cfg
                      /\ cache_expiry' = r.expiry
                      /\ active_at_load' = r.loaded
                      /\ last_transition_check' = r.ltc
                      /\ last_run_times' = r.last_run_times
                      /\ dedupe_cache' = r.cache
                      /\ state_row' = r.w.row
                      /\ sell_orders' = r.w.sells
                      /\ buy_orders' = r.w.buys
                      /\ gate_log' = r.log
                      /\ pause' = r.pause + 1
                      /\ loop_alive' = (r.error = "none" \/ ~send_line_message(line).raised)
                      /\ faults' = faults + n
                      /\ last_iter' = [ran |-> TRUE, error |-> r.error,
                                       gated |-> r.gated, acted |-> r.acted,
                                       checked |-> r.checked]
    /\ UNCHANGED <<calls, all_results, last_exec, dec_vars, trans_vars,
                   schedules, now, restarts>>

\* Ten seconds pass while the loop sleeps (it runs its next iteration as soon as its
\* sleep is over).
Tick ==
    /\ pause > 0 \/ ~loop_alive
    /\ now.unit < WindowStart + MaxUnits
    /\ now' = [now EXCEPT !.unit = @ + 1]
    /\ pause' = Max0(pause - 1)
    /\ UNCHANGED <<orch_vars, dec_vars, store_vars, trans_vars, schedules, config_cache,
                   cache_expiry, last_run_times, last_transition_check, cdc_cache,
                   loop_alive, restarts, faults, active_at_load, gate_log, last_iter>>

\* The rest of the day passes (nothing is due in it); the loop is awake at 08:59:50
\* of the next date.
NextDay ==
    /\ now.date < MaxDays
    /\ now.unit = WindowStart + MaxUnits
    /\ now' = [date |-> now.date + 1, unit |-> WindowStart]
    /\ pause' = 0
    /\ UNCHANGED <<orch_vars, dec_vars, store_vars, trans_vars, schedules, config_cache,
                   cache_expiry, last_run_times, last_transition_check, cdc_cache,
                   loop_alive, restarts, faults, active_at_load, gate_log, last_iter>>

\* app.py:1233-1329 edit_schedule / 1331-1365 delete_schedule: the admin surface
\* switches a schedule off or on in the store.
EditSchedule ==
    \E i \in DOMAIN schedules :
        /\ schedules' = [schedules EXCEPT ![i].is_active = 1 - @]
        /\ UNCHANGED <<orch_vars, dec_vars, store_vars, trans_vars, now, config_cache,
                       cache_expiry, last_run_times, last_transition_check, cdc_cache,
                       pause, loop_alive, restarts, faults, active_at_load, gate_log, last_iter>>

\* The process is stopped and started again: everything it held in memory is new,
\* the store is as it was.  The history keeps, per schedule and date, whether the
\* schedule had fired in an earlier process.
Restart ==
    /\ restarts < MaxRestarts
    /\ restarts' = restarts + 1
    /\ StartProcess(now)
    /\ gate_log' = [id \in Ids |-> [d \in Dates |->
                       [NoGate EXCEPT !.prior = gate_log[id][d].prior
                                                \/ gate_log[id][d].returns > 0]]]
    /\ last_iter' = NoIter
    /\ active_at_load' = {}
    /\ UNCHANGED <<calls, all_results, last_exec, dec_vars, store_vars, trans_vars,
                   schedules, now, faults>>

NextSched == LoopIteration \/ Tick \/ NextDay \/ EditSchedule \/ Restart
SpecSched == InitSched /\ [][NextSched]_vars

\* A step of the loop: only an iteration lets the pause grow (its closing sleep).
IterationStep == pause' > pause

\* C3: within one run of the scheduler loop, gate_weekly_dca is invoked at most once
\* per schedule id and calendar date for the schedule's time-of-day, over all the
\* iterations that fall inside the match window.
C3_GateOncePerScheduleDate ==
    \A id \in Ids, d \in Dates : gate_log[id][d].calls <= 1

\* C4: when the loop re-runs the weekly path for a schedule and date after an
\* attempt that ended in a failure, the schedule's effect (one buy order or one
\* reserve increment) is applied exactly once overall: never twice, and not zero
\* times once a retry has succeeded.
C4_ExactlyOnceUnderRetries ==
    \A id \in Ids, d \in Dates :
        LET g == gate_log[id][d]
        IN  /\ g.buys + g.incs <= 1
            /\ (g.calls >= 2 /\ g.success >= 1) => g.buys + g.incs = 1

\* C5: a schedule that fired for a date before a process restart is not fired again
\* for that date after the restart.
C5_MarkerSurvivesRestart ==
    \A id \in Ids, d \in Dates : gate_log[id][d].prior => gate_log[id][d].calls = 0

\* C6: the scheduler loop never terminates because of a failure inside an
\* iteration: whatever was raised (validation error, store outage, exchange outage)
\* and whether or not the notification could be sent, the while loop has not been
\* left (its next iteration starts when the sleep is over).
C6_LoopNeverTerminates == loop_alive

\* C6 witness: an iteration in which the gate raised and the notification of the
\* error failed as well; the loop is alive and asleep.
C6_Witness ==
    /\ last_iter.error = "gate"
    /\ faults = 2
    /\ loop_alive
    /\ pause = 1

\* C6 witness (second case): the store was down at the cache reload.
C6_WitnessStore ==
    /\ last_iter.error = "store"
    /\ loop_alive
    /\ pause = 1

\* C6 witness (third case): an iteration after a failed one went through and gated
\* the schedule again.
C6_WitnessNextIteration ==
    /\ last_iter.ran
    /\ last_iter.error = "none"
    /\ \E id \in last_iter.gated, d \in Dates :
         gate_log[id][d].calls = 2 /\ gate_log[id][d].returns = 1

\* C7: when a cached schedule is malformed, only that schedule is skipped in the
\* tick: every other cached schedule that is due in the tick is still gated,
\* whatever its position relative to the malformed one.
C7_MalformedSkippedOthersFire ==
    [][(IterationStep /\ last_iter'.error = "validation")
       => \A i \in DueNow(config_cache', now, last_run_times) :
              config_cache'[i].id \in last_iter'.gated]_vars

\* C9 (as claimed): no action is produced in a tick for a schedule whose active
\* flag is false in the store at the time of the tick.
C9_InactiveNeverActs ==
    [][IterationStep
       => \A id \in last_iter'.acted :
              \E i \in DOMAIN schedules : schedules[i].id = id /\ schedules[i].is_active = 1]_vars

\* C9 (amended): no action is produced for a schedule whose active flag was false
\* when the schedule cache was last loaded from the store.
C9_InactiveAtLoadNeverActs ==
    last_iter.acted \subseteq active_at_load

\* C9 witness: schedule 1 was switched off before the load and is due now; the
\* iteration gated nothing for it although the load took place.
C9_Witness ==
    /\ last_iter.ran
    /\ last_iter.error = "none"
    /\ 1 \notin active_at_load
    /\ IsDue(schedules[1], now)
    /\ ~validate_schedule(schedules[1].schedule_time, schedules[1].schedule_day).raised
    /\ schedules[1].is_active = 0
    /\ 1 \notin last_iter.acted

\* The gates of today's date that returned normally in this step.
ReturnedNow == {id \in Ids : gate_log'[id][now.date].returns > gate_log[id][now.date].returns}

\* The amounts of the cached schedules with an id in ids, added up.
RECURSIVE AmountOf(_, _, _)
AmountOf(cfg, ids, i) ==
    IF i > Len(cfg) THEN 0
    ELSE (IF cfg[i].id \in ids THEN cfg[i].purchase_amount ELSE 0) + AmountOf(cfg, ids, i + 1)

\* C12: when a global schedule with amount A fires through gate_weekly_dca with the
\* strategy enabled and the signal down, exactly one RESERVE_MOVE is executed, the
\* global reserve grows by exactly A and no order goes to an exchange.
C12_DownMovesAmountToReserve ==
    [][(IterationStep /\ signal = "down" /\ state_row.cdc_enabled = 1)
       => /\ \A id \in ReturnedNow :
               /\ gate_log'[id][now.date].success = gate_log[id][now.date].success + 1
               /\ gate_log'[id][now.date].incs = gate_log[id][now.date].incs + 1
          /\ state_row'.reserve_usdt
               = state_row.reserve_usdt + AmountOf(config_cache', ReturnedNow, 1)
          /\ buy_orders' = buy_orders
          /\ sell_orders' = sell_orders]_vars

(***************************************************************************)
(* SpecReserve: any sequence of reserve increments and reserve buys on the  *)
(* three reserve balances.                                                  *)
(***************************************************************************)

MaxReserveOps == 3     \* reserve operations per behaviour

\* The amounts a caller passes: negative, zero, positive, not a number.
ReserveAmounts == {Num(v) : v \in {0 - 50, 0, 30}} \cup {NotANumber}

NoReserveOp == [op |-> "none", amount |-> Num(0), exchange |-> "", outcome |-> ""]

InitReserve ==
    /\ InitOrchVars
    /\ dec_in = NoReserveOp
    /\ dec_out = NotDecided
    /\ state_row \in {[StateDefaults EXCEPT !.reserve_usdt = rg, !.reserve_okx_usdt = ro] :
                        rg \in {0, 30}, ro \in {0, 30}}
    /\ sell_orders = NoOrders
    /\ buy_orders = 0
    /\ InitTransIdle
    /\ InitSchedIdle

\* The operation's input in dec_in, what it did in dec_out: the balance of the
\* reserve it works on before and after.
ReserveOp(op, f, amount, ex, e, row, buys) ==
    /\ n_checks < MaxReserveOps
    /\ n_checks' = n_checks + 1
    /\ dec_in' = [op |-> op, amount |-> amount, exchange |-> ex, outcome |-> e]
    /\ dec_out' = [done |-> TRUE, actions |-> <<>>, before |-> state_row[f], after |-> row[f]]
    /\ state_row' = row
    /\ buy_orders' = buys
    /\ UNCHANGED <<orch_vars, sell_orders, signal, last_check, sched_vars>>

IncrementReserve ==
    \E amount \in ReserveAmounts, store_ok \in BOOLEAN :
        ReserveOp("increment_reserve", "reserve_usdt", amount, "",
                  IF store_ok THEN "executed" ELSE "error_before",
                  increment_reserve(state_row, amount, store_ok).row, buy_orders)

IncrementReserveExchange ==
    \E ex \in {"binance", "okx"}, amount \in ReserveAmounts, store_ok \in BOOLEAN :
        ReserveOp("increment_reserve_exchange", ReserveField("exchange", ex), amount, ex,
                  IF store_ok THEN "executed" ELSE "error_before",
                  increment_reserve_exchange(state_row, ex, amount, store_ok).row, buy_orders)

ReserveBuy ==
    \E mode \in {"global", "exchange"}, e \in ReserveBuyOutcomes :
    \E ex \in (IF mode = "global" THEN {""} ELSE {"binance", "okx"}) :
        LET r == execute_reserve_buy(mode, ex, e, World)
        IN  ReserveOp("reserve_buy", ReserveField(mode, ex), Num(0), ex, e, r.w.row, r.w.buys)

NextReserve == IncrementReserve \/ IncrementReserveExchange \/ ReserveBuy
SpecReserve == InitReserve /\ [][NextReserve]_vars

\* C19: every reserve balance (global, binance, okx) is >= 0 in every reachable
\* state, after any sequence of reserve increments (zero, negative and non-numeric
\* amounts included) and reserve buys (spending less, exactly or more than the
\* reserve).
C19_ReservesNeverNegative ==
    /\ state_row.reserve_usdt >= 0
    /\ state_row.reserve_binance_usdt >= 0
    /\ state_row.reserve_okx_usdt >= 0

\* C19 witness: a reserve buy that reported more spent than the reserve held; the
\* reserve is 0.
C19_Witness ==
    /\ dec_in.op = "reserve_buy"
    /\ dec_in.outcome = "executed_more"
    /\ dec_out.before > 0
    /\ dec_out.after = 0

\* C19 witness (second case): a negative increment left the reserve as it was.
C19_WitnessNegative ==
    /\ dec_in.op = "increment_reserve_exchange"
    /\ dec_in.amount = Num(0 - 50)
    /\ dec_in.outcome = "executed"
    /\ dec_out.before = dec_out.after

(***************************************************************************)
(* SpecKeys: one logical event (a schedule on a calendar date of the        *)
(* business timezone, or a transition on such a date) evaluated twice, at   *)
(* two times of the day and with what the store holds at each.              *)
(***************************************************************************)

SixOClock == [date |-> 1, unit |-> 6 * 60 * UnitsPerMinute]

KeyWeeklyInputs ==
    [now : {SixOClock, NineOClock}, schedule_id : {1}, mode : {"global", "both"},
     amount : {50}, cdc_status : Statuses, cdc_enabled : {TRUE},
     binance_amount : {40, 60}, okx_amount : {40}]

KeyTransitionInputs ==
    [now : {SixOClock, NineOClock}, previous_status : {"up", "down"},
     current_status : Statuses, red_epoch_active : {FALSE},
     half_sell_policy : {"auto_proportional"}, sell_percent_binance : {30, 40},
     sell_percent_okx : {0}, sell_percent_global : {50}, active_exchange : {"binance"},
     reserve_usdt : {100}, reserve_binance_usdt : {0, 50}, reserve_okx_usdt : {0}]

\* Two evaluations of the same logical event.
SameWeeklyEvent(a, b) ==
    /\ a.schedule_id = b.schedule_id
    /\ a.now.date = b.now.date
    /\ a.mode = b.mode

SameTransitionEvent(a, b) ==
    /\ a.previous_status = b.previous_status
    /\ a.current_status = b.current_status
    /\ a.now.date = b.now.date

InitKeys ==
    /\ InitOrchVars
    /\ dec_in \in {[fn |-> "decide_weekly_dca", first |-> p[1], second |-> p[2]] :
                      p \in {q \in KeyWeeklyInputs \X KeyWeeklyInputs :
                                SameWeeklyEvent(q[1], q[2])}}
               \cup {[fn |-> "decide_transition", first |-> p[1], second |-> p[2]] :
                      p \in {q \in KeyTransitionInputs \X KeyTransitionInputs :
                                SameTransitionEvent(q[1], q[2])}}
    /\ dec_out = NotDecided
    /\ InitStoreIdle
    /\ InitTransIdle
    /\ InitSchedIdle

\* base.py:38-40  make_request_id draws a fresh uuid for each evaluation
EvaluateWeeklyTwice ==
    /\ ~dec_out.done
    /\ dec_in.fn = "decide_weekly_dca"
    /\ dec_out' = [done |-> TRUE,
                   actions |-> decide_weekly_dca(dec_in.first, "cdc-weekly-1"),
                   again |-> decide_weekly_dca(dec_in.second, "cdc-weekly-2")]
    /\ UNCHANGED <<dec_in, orch_vars, store_vars, trans_vars, sched_vars>>

EvaluateTransitionTwice ==
    /\ ~dec_out.done
    /\ dec_in.fn = "decide_transition"
    /\ dec_out' = [done |-> TRUE,
                   actions |-> decide_transition(dec_in.first, "cdc-transition-1"),
                   again |-> decide_transition(dec_in.second, "cdc-transition-2")]
    /\ UNCHANGED <<dec_in, orch_vars, store_vars, trans_vars, sched_vars>>

NextKeys == EvaluateWeeklyTwice \/ EvaluateTransitionTwice
SpecKeys == InitKeys /\ [][NextKeys]_vars

\* The exchange an action is for ("" for the global ones).
ActionExchange(a) ==
    IF "exchange" \in DOMAIN a.payload THEN a.payload.exchange ELSE ""

\* C16: two evaluations of the same logical event (schedule id, calendar date,
\* or transition and date) return, for the same exchange and kind, actions with
\* identical dedupe keys and different request ids, whatever the time of day of
\* the two evaluations.
C16_KeysDeterministicInIdentity ==
    dec_out.done
    => \A i \in 1..Len(dec_out.actions), j \in 1..Len(dec_out.again) :
          (/\ dec_out.actions[i].action_type = dec_out.again[j].action_type
           /\ ActionExchange(dec_out.actions[i]) = ActionExchange(dec_out.again[j]))
          => /\ dec_out.actions[i].dedupe_key = dec_out.again[j].dedupe_key
             /\ dec_out.actions[i].request_id # dec_out.again[j].request_id

(***************************************************************************)
(* SpecSignal: calls of get_cdc_status_1d over time, with candles that are  *)
(* enough, too few, or cannot be fetched.                                   *)
(***************************************************************************)

InitSignal ==
    /\ InitOrchVars
    /\ dec_in = [klines |-> "ok", called_at |-> [date |-> 1, unit |-> 0]]
    /\ dec_out = NotDecided
    /\ InitStoreIdle
    /\ signal \in Statuses
    /\ n_checks = 0
    /\ last_check = NoCheck
    /\ InitSchedIdle

\* One call; dec_in is what it met, dec_out what it gave.  The next call comes 10
\* or 60 seconds later.
ComputeSignal ==
    /\ n_checks < MaxChecks
    /\ \E klines \in {"ok", "few", "raise"}, secs \in {SleepSeconds, CdcCacheSeconds} :
        \E r \in {get_cdc_status_1d(now, cdc_cache, signal, klines)} :
            /\ dec_in' = [klines |-> klines, called_at |-> now]
            /\ dec_out' = [done |-> TRUE, actions |-> <<>>, raised |-> r.raised,
                           status |-> r.status, fetched |-> r.cache # cdc_cache \/ r.raised]
            /\ cdc_cache' = r.cache
            /\ now' = PlusSeconds(now, secs)
    /\ n_checks' = n_checks + 1
    /\ UNCHANGED <<orch_vars, store_vars, signal, last_check, schedules, config_cache,
                   cache_expiry, last_run_times, last_transition_check, pause,
                   loop_alive, restarts, faults, active_at_load, gate_log, last_iter>>

NextSignal == ComputeSignal \/ SignalFlip
SpecSignal == InitSignal /\ [][NextSignal]_vars

\* C18: get_cdc_status_1d never raises; with fewer than 50 candles and with a
\* failing candle fetch it returns status "down", so a caller always obtains a
\* status in {"up", "down"}.
C18_SignalNeverRaises ==
    dec_out.done
    => /\ ~dec_out.raised
       /\ dec_out.status \in Statuses
       /\ (dec_out.fetched /\ dec_in.klines # "ok") => dec_out.status = "down"

\* C17: whenever at least 60 seconds have passed since the previous transition
\* check, the next loop iteration runs check_cdc_transition_and_act, whether or
\* not any active schedule exists (iterations whose schedule query failed aside).
C17_TransitionCheckEveryMinute ==
    [][(IterationStep /\ CheckDue(now, last_transition_check)
                      /\ last_iter'.error # "store")
       => last_iter'.checked]_vars

(***************************************************************************)
(* SpecHalfSell: one HALF_SELL action handled against an account and the    *)
(* exchange's lot filters.  Quantities are in units of 0.00001 BTC.         *)
(***************************************************************************)

\* main.py:1620-1630  adjust_qty_to_step of btc_free * pct / 100: rounded down to
\* a multiple of the step (left as it is for a step <= 0)
adjust_qty_to_step(btc_free, pct, step) ==
    IF step <= 0 THEN (btc_free * pct) \div 100
    ELSE ((btc_free * pct) \div (100 * step)) * step

\* main.py:1651-1712  the returns of _execute_half_sell_for_exchange before it asks
\* for a price: the reason it skips for, or "none"
half_sell_precheck(pct, btc_free, step, min_qty) ==
    IF pct <= 0 THEN "sell_percent_zero"
    ELSE IF btc_free <= 0 THEN "no_balance"
    ELSE IF adjust_qty_to_step(btc_free, pct, step) < min_qty THEN "below_minQty"
    ELSE "none"

InitHalfSell ==
    /\ InitOrchVars
    /\ dec_in \in [exchange : {"binance", "okx"}, percent : {0, 30, 50},
                    btc_free : {0, 3, 10, 40}, step : {1, 5}, min_qty : {1, 5, 10}]
    /\ dec_out = NotDecided
    /\ InitStoreIdle
    /\ InitTransIdle
    /\ InitSchedIdle

\* The handler on a HALF_SELL action for dec_in's exchange and percent; what comes
\* after the prechecks (guards, the order, the bookkeeping) is drawn only when
\* they pass.
HandleHalfSell ==
    /\ ~dec_out.done
    /\ LET reason == half_sell_precheck(dec_in.percent, dec_in.btc_free, dec_in.step,
                                        dec_in.min_qty)
           action == StrategyAction("HALF_SELL", "cdc-transition-1",
                         dedupe_key_for(<<"half_sell", dec_in.exchange, Str(dec_in.percent)>>),
                         [exchange |-> dec_in.exchange, percent |-> dec_in.percent])
       IN  \E e \in (IF reason = "none" THEN {"executed", "skipped", "error_after"}
                      ELSE {"skipped"}) :
           \E r \in {handle_half_sell_action(action, e, World)} :
               /\ dec_out' = [done |-> TRUE, actions |-> <<action>>,
                              status |-> r.result.status, reason |-> reason]
               /\ sell_orders' = r.w.sells
    /\ UNCHANGED <<dec_in, orch_vars, state_row, buy_orders, trans_vars, sched_vars>>

NextHalfSell == HandleHalfSell
SpecHalfSell == InitHalfSell /\ [][NextHalfSell]_vars

\* C20: when a HALF_SELL action is handled and free balance x percent / 100,
\* floored to the step size, is below minQty, the action's result is SKIPPED with
\* reason below_minQty and no sell order is submitted.
C20_BelowMinQtySkipped ==
    (dec_out.done /\ dec_out.reason = "below_minQty")
    => /\ dec_out.status = "SKIPPED"
       /\ sell_orders = NoOrders

(***************************************************************************)
(* main.py liquidity guards and exchanges/*.py adapters.  Quote amounts are *)
(* whole USDT, base quantities units of 0.00001 BTC, the price is USDT per  *)
(* unit.                                                                    *)
(***************************************************************************)

\* What a call of an optional adapter hook (get_top_of_book, get_depth_snapshot,
\* get_recent_candles) can give: data inside the guard's threshold, data outside
\* it, NotImplementedError, or another exception.  BinanceAdapter and OkxAdapter
\* define none of the three hooks and ExchangeAdapter declares none, so on them
\* the call is an AttributeError.
HookOutcomes == {"data_ok", "data_bad", "NotImplementedError", "AttributeError"}

\* main.py:103-126  assess_liquidity (the spread guard)
assess_liquidity(tob) ==
    IF tob = "data_ok" THEN [ok |-> TRUE, reason |-> "none"]
    ELSE IF tob = "data_bad" THEN [ok |-> FALSE, reason |-> "spread_high"]
    ELSE IF tob = "NotImplementedError" THEN [ok |-> TRUE, reason |-> "not_supported"]
    ELSE [ok |-> FALSE, reason |-> "liquidity_error"]

\* main.py:134-159  evaluate_depth_guard (ENABLE_DEPTH_GUARD at its default, on)
evaluate_depth_guard(depth, price) ==
    IF price <= 0 THEN [ok |-> TRUE, reason |-> "none"]
    ELSE IF depth = "data_ok" THEN [ok |-> TRUE, reason |-> "none"]
    ELSE IF depth = "data_bad" THEN [ok |-> FALSE, reason |-> "depth_insufficient"]
    ELSE IF depth = "NotImplementedError" THEN [ok |-> TRUE, reason |-> "depth_not_supported"]
    ELSE [ok |-> FALSE, reason |-> "depth_error"]

\* main.py:162-188  evaluate_twap_guard (ENABLE_TWAP_GUARD at its default, on)
evaluate_twap_guard(twap, price) ==
    IF price <= 0 THEN [ok |-> TRUE, reason |-> "none"]
    ELSE IF twap = "data_ok" THEN [ok |-> TRUE, reason |-> "none"]
    ELSE IF twap = "data_bad" THEN [ok |-> FALSE, reason |-> "twap_deviation"]
    ELSE IF twap = "NotImplementedError" THEN [ok |-> TRUE, reason |-> "twap_not_supported"]
    ELSE [ok |-> FALSE, reason |-> "twap_error"]

\* main.py:190-201  evaluate_notional_cap: cap is the exchange's *_max_usdt (0: none)
evaluate_notional_cap(dry_run, cap, notional) ==
    IF dry_run THEN TRUE ELSE ~(cap > 0 /\ notional > cap)

\* The symbol filters and the price of the models below.
\* main.py:1586-1618 get_symbol_filters, for a symbol with the given step size
Filters(step) == [stepSize |-> step, minQty |-> 2, minNotional |-> 10]
Price == 2

\* okx.py:25  the adapter's max_usdt when none is passed and OKX_MAX_USDT is unset
OkxDefaultMaxUsdt == 10

\* exchanges/base.py:47-50 floor_to_step: value / per rounded down to a multiple
\* of the step (value / per itself for a step <= 0)
floor_to_step(value, per, step) ==
    IF step <= 0 THEN value \div per ELSE (value \div (per * step)) * step

\* The lowest decimal place of a step: Decimal(str(step)).as_tuple().exponent,
\* as a number of units (1 for a step of 2 units, 10 for a step of 10 or 20).
RECURSIVE DecimalQuantum(_)
DecimalQuantum(step) ==
    IF step % 10 = 0 THEN 10 * DecimalQuantum(step \div 10) ELSE 1

\* exchanges/base.py:59-76 quantize_step: Decimal.quantize(step, ROUND_DOWN)
\* rounds value / per down to the decimal places of the step, which is a
\* multiple of the step only when the step is a power of ten.
quantize_step(value, per, step) ==
    IF step <= 0 THEN value \div per
    ELSE (value \div (per * DecimalQuantum(step))) * DecimalQuantum(step)

NoOrder == [raised |-> FALSE, order_id |-> 0, executed_qty |-> 0,
            cummulative_quote_qty |-> 0, sent |-> <<>>]

\* The OrderResult of an order the exchange accepted: resp says whether it filled.
Filled(order, qty, resp, sent) ==
    [raised |-> FALSE, order_id |-> order,
     executed_qty |-> IF resp = "filled" THEN qty ELSE 0,
     cummulative_quote_qty |-> IF resp = "filled" THEN qty * Price ELSE 0,
     sent |-> sent]

Synthesized(qty) ==
    [raised |-> FALSE, order_id |-> 0 - 1, executed_qty |-> qty,
     cummulative_quote_qty |-> qty * Price, sent |-> <<>>]

Raised(sent) == [NoOrder EXCEPT !.raised = TRUE, !.sent = sent]

\* Mutant: the dry-run branch of the buy is missing.
place_market_buy_quote_live(ex, step, dry_run, live_enabled, max_usdt, usdt_amount, resp) ==
    Filled(1, floor_to_step(usdt_amount, Price, Filters(step).stepSize), resp[1],
           <<[size |-> "quote", amount |-> usdt_amount]>>)

\* binance.py:41-56 / okx.py:111-169  place_market_buy_quote.  resp: what the
\* exchange answers to the first and to the second order-placement request
\* ("filled", "nofill", "rejected").  sent: the order-placement requests sent.
place_market_buy_quote(ex, step, dry_run, live_enabled, max_usdt, usdt_amount, resp) ==
    IF ex # "okx"
    THEN IF dry_run
         THEN Synthesized(floor_to_step(usdt_amount, Price, Filters(step).stepSize))
         ELSE LET sent == <<[size |-> "quote", amount |-> usdt_amount]>>
              IN  IF resp[1] = "rejected" THEN Raised(sent)
                  ELSE Filled(1, floor_to_step(usdt_amount, Price, Filters(step).stepSize),
                              resp[1], sent)
    ELSE LET spend == IF max_usdt > 0 /\ max_usdt < usdt_amount THEN max_usdt
                      ELSE usdt_amount
             qty == quantize_step(spend, Price, Filters(step).stepSize)
             first == [size |-> "quote", amount |-> spend]
         IN  IF dry_run \/ ~live_enabled
             THEN IF qty < Filters(step).minQty THEN Raised(<<>>) ELSE Synthesized(qty)
             ELSE IF resp[1] # "rejected" THEN Filled(1, qty, resp[1], <<first>>)
             ELSE IF qty < Filters(step).minQty THEN Raised(<<first>>)
             ELSE LET both == <<first, [size |-> "base", amount |-> qty]>>
                  IN  IF resp[2] = "rejected" THEN Raised(both)
                      ELSE Filled(2, qty, resp[2], both)

\* binance.py:58-78 / okx.py:171-206  place_market_sell_qty
place_market_sell_qty(ex, step, dry_run, live_enabled, qty_btc, resp) ==
    LET qty == quantize_step(qty_btc, 1, Filters(step).stepSize)
        sent == <<[size |-> "base", amount |-> qty]>>
    IN  IF qty < Filters(step).minQty THEN Raised(<<>>)
        ELSE IF ex # "okx" /\ qty * Price < Filters(step).minNotional THEN Raised(<<>>)
        ELSE IF dry_run \/ (ex = "okx" /\ ~live_enabled) THEN Synthesized(qty)
        ELSE IF resp[1] = "rejected" THEN Raised(sent)
        ELSE Filled(1, qty, resp[1], sent)

(***************************************************************************)
(* main.py: the execution pipelines behind the handlers, step by step.     *)
(* m is what one invocation meets: the handler's arguments, the account,   *)
(* the configuration and the adapter hooks; row the strategy_state row;    *)
(* resp the exchange's answers to order requests; fail where the store     *)
(* fails (0: nowhere, 1: connecting, 1 + k: in statement k, else: commit). *)
(***************************************************************************)

\* One statement of a transaction on [row, inserted]: an INSERT into a ledger
\* table or the reserve decrement.
ApplyStatement(store, stmt) ==
    IF stmt.op = "insert" THEN [store EXCEPT !.inserted = @ + 1]
    ELSE [store EXCEPT !.row[stmt.field] = reserve_after_buy(@, stmt.spent)]

RECURSIVE ApplyAll(_, _, _)
ApplyAll(store, stmts, n) ==
    IF n = 0 THEN store ELSE ApplyStatement(ApplyAll(store, stmts, n - 1), stmts[n])

\* Mutant: every statement is committed as it is executed (no rollback).
db_transaction_autocommit(store, stmts, fail) ==
    IF fail = 0 THEN [raised |-> FALSE, store |-> ApplyAll(store, stmts, Len(stmts)),
                      conn |-> "closed"]
    ELSE IF fail = 1 THEN [raised |-> TRUE, store |-> store, conn |-> "none"]
    ELSE [raised |-> TRUE,
          store |-> ApplyAll(store, stmts, IF fail - 2 < Len(stmts) THEN fail - 2
                                           ELSE Len(stmts)),
          conn |-> "closed"]

\* main.py:334-361  db_transaction around the statements: commit after the last
\* one, rollback on any exception, cursor and connection closed in the finally
\* clause (there is none to close when connecting failed).
db_transaction(store, stmts, fail) ==
    IF fail = 0 THEN [raised |-> FALSE, store |-> ApplyAll(store, stmts, Len(stmts)),
                      conn |-> "closed"]
    ELSE IF fail = 1 THEN [raised |-> TRUE, store |-> store, conn |-> "none"]
    ELSE [raised |-> TRUE, store |-> store, conn |-> "closed"]

\* The result of a pipeline: class ("executed", "skipped", "error": an error dict,
\* "raised": an exception), the reason, the guards evaluated, the adapter's
\* result, the strategy_state row and the ledger rows inserted.
Outcome(class, reason, guards, order, store, conn) ==
    [class |-> class, reason |-> reason, guards |-> guards, order |-> order,
     row |-> store.row, inserted |-> store.inserted, conn |-> conn]

\* The tail of a pipeline once the adapter was called: error on an exception of
\* the adapter or (zero_check) an empty fill, then the ledger transaction.
AfterOrder(failed, guards, order, zero_check, store, stmts, fail) ==
    IF order.raised THEN Outcome(failed, "order_error", guards, order, store, "none")
    ELSE IF zero_check /\ (order.executed_qty <= 0 \/ order.cummulative_quote_qty <= 0)
    THEN Outcome(failed, "not_filled", guards, order, store, "none")
    ELSE LET t == db_transaction(store, stmts, fail)
         IN  IF t.raised THEN Outcome(failed, "store_error", guards, order, t.store, t.conn)
             ELSE Outcome("executed", "none", guards, order, t.store, t.conn)

\* main.py:982-1092  purchase_btc: connection, balance check (not in dry-run),
\* order, ledger insert and commit; every exception is re-raised.
purchase_btc_steps(m, row, resp, fail) ==
    LET store == [row |-> row, inserted |-> 0]
    IN  IF fail = 1 THEN Outcome("raised", "store_error", {}, NoOrder, store, "none")
        ELSE IF ~m.dry_run /\ m.free_usdt < m.amount
        THEN Outcome("raised", "insufficient_balance", {}, NoOrder, store, "closed")
        ELSE AfterOrder("raised", {},
                 place_market_buy_quote(m.exchange, m.step, m.dry_run, m.live_enabled,
                                        OkxDefaultMaxUsdt, m.amount, resp),
                 FALSE, store, <<[op |-> "insert"]>>, fail)

\* main.py:1454-1458, 2121-2124  the OKX adapter's max_usdt from the state row
AdapterMaxUsdt_unlimited(cap) == 0
AdapterMaxUsdt(cap) == IF cap > 0 THEN cap ELSE OkxDefaultMaxUsdt

\* main.py:1450-1584  purchase_on_exchange
purchase_on_exchange_steps(m, row, resp, fail) ==
    LET store == [row |-> row, inserted |-> 0]
        d == evaluate_depth_guard(m.depth, Price)
        t == evaluate_twap_guard(m.twap, Price)
    IN  IF ~d.ok THEN Outcome("skipped", d.reason, {"depth"}, NoOrder, store, "none")
        ELSE IF ~t.ok
        THEN Outcome("skipped", t.reason, {"depth", "twap"}, NoOrder, store, "none")
        ELSE IF ~evaluate_notional_cap(m.dry_run, m.cap, m.amount)
        THEN Outcome("skipped", "notional_cap", {"depth", "twap", "cap"}, NoOrder, store, "none")
        ELSE AfterOrder("error", {"depth", "twap", "cap"},
                 place_market_buy_quote(m.exchange, m.step, m.dry_run, m.live_enabled,
                                        AdapterMaxUsdt(m.cap), m.amount, resp),
                 TRUE, store, <<[op |-> "insert"]>>, fail)

\* main.py:1632-1880  _execute_half_sell_for_exchange
half_sell_steps(m, row, resp, fail) ==
    LET store == [row |-> row, inserted |-> 0]
        pre == half_sell_precheck(m.percent, m.btc_free, Filters(m.step).stepSize,
                                  Filters(m.step).minQty)
        qty == adjust_qty_to_step(m.btc_free, m.percent, Filters(m.step).stepSize)
        d == evaluate_depth_guard(m.depth, Price)
        t == evaluate_twap_guard(m.twap, Price)
        l == assess_liquidity(m.tob)
    IN  IF pre # "none" THEN Outcome("skipped", pre, {}, NoOrder, store, "none")
        ELSE IF ~d.ok THEN Outcome("skipped", d.reason, {"depth"}, NoOrder, store, "none")
        ELSE IF ~t.ok
        THEN Outcome("skipped", t.reason, {"depth", "twap"}, NoOrder, store, "none")
        ELSE IF ~evaluate_notional_cap(m.dry_run, m.cap, qty * Price)
        THEN Outcome("skipped", "notional_cap", {"depth", "twap", "cap"}, NoOrder, store, "none")
        ELSE IF ~l.ok
        THEN Outcome("skipped", l.reason, {"depth", "twap", "cap", "spread"}, NoOrder,
                     store, "none")
        ELSE IF qty * Price < Filters(m.step).minNotional
        THEN Outcome("skipped", "below_minNotional", {"depth", "twap", "cap", "spread"},
                     NoOrder, store, "none")
        ELSE AfterOrder("error", {"depth", "twap", "cap", "spread"},
                 place_market_sell_qty(m.exchange, m.step, m.dry_run, m.live_enabled, qty, resp),
                 TRUE, store, <<[op |-> "insert"]>>, fail)

\* main.py:1927-2111 execute_reserve_buy (mode "global", on the active exchange)
\* and 2113-2283 execute_reserve_buy_exchange (mode "exchange")
reserve_buy_steps(mode, m, row, resp, fail) ==
    LET store == [row |-> row, inserted |-> 0]
        f == ReserveField(mode, m.exchange)
        reserve == row[f]
        spend == IF m.free_usdt < reserve THEN m.free_usdt ELSE reserve
        d == evaluate_depth_guard(m.depth, Price)
        t == evaluate_twap_guard(m.twap, Price)
        l == assess_liquidity(m.tob)
        order == place_market_buy_quote(m.exchange, m.step, m.dry_run, m.live_enabled,
                     IF mode = "global" THEN OkxDefaultMaxUsdt ELSE AdapterMaxUsdt(m.cap),
                     spend, resp)
    IN  IF reserve <= 0 THEN Outcome("skipped", "no_reserve", {}, NoOrder, store, "none")
        ELSE IF spend < Filters(m.step).minNotional
        THEN Outcome("skipped", "below_minNotional", {}, NoOrder, store, "none")
        ELSE IF ~d.ok THEN Outcome("skipped", d.reason, {"depth"}, NoOrder, store, "none")
        ELSE IF ~t.ok
        THEN Outcome("skipped", t.reason, {"depth", "twap"}, NoOrder, store, "none")
        ELSE IF ~evaluate_notional_cap(m.dry_run, m.cap, spend)
        THEN Outcome("skipped", "notional_cap", {"depth", "twap", "cap"}, NoOrder, store, "none")
        ELSE IF ~l.ok
        THEN Outcome("skipped", l.reason, {"depth", "twap", "cap", "spread"}, NoOrder,
                     store, "none")
        ELSE AfterOrder("error", {"depth", "twap", "cap", "spread"}, order, TRUE, store,
                 <<[op |-> "insert"],
                   [op |-> "decrement", field |-> f, spent |-> order.cummulative_quote_qty]>>,
                 fail)

\* The ActionStatus the handler (and the orchestrator around it) gives the result:
\* main.py:2640-2660 with runtime.py:54-62 (handle_global_buy: FAILED when
\* purchase_btc raised), 2708-2722 (handle_exchange_buy), 203-221
\* (handle_half_sell_action), 224-244 (handle_reserve_buy_action).
HandlerStatus(handler, class) ==
    CASE handler = "purchase_btc" -> IF class = "raised" THEN "FAILED" ELSE "SUCCESS"
      [] handler = "purchase_on_exchange" ->
            IF class = "executed" THEN "SUCCESS"
            ELSE IF class = "skipped" THEN "SKIPPED" ELSE "FAILED"
      [] handler = "half_sell" -> IF class = "executed" THEN "SUCCESS" ELSE "FAILED"
      [] OTHER -> IF class \in {"executed", "skipped"} THEN "SUCCESS" ELSE "FAILED"

(***************************************************************************)
(* SpecHandlers: one invocation of an execution handler, or one call of an *)
(* adapter's order method, on every drawn account, configuration, hook     *)
(* outcome, exchange response and store failure.                           *)
(***************************************************************************)

QuoteAmounts == {5, 30}
BtcFree == {0, 3, 8, 40}
Caps == {0, 20}
Steps == {2, 10}
Responses == {"filled", "nofill", "rejected"}
MaxFail == 3
ExecutionHandlers == {"purchase_btc", "purchase_on_exchange", "half_sell",
                      "reserve_buy", "reserve_buy_exchange"}
AdapterCalls == {"place_market_buy_quote", "place_market_sell_qty"}

Invocation(hs, amounts, frees, btcs, pcts, reserves, hooks) ==
    {m \in [handler : hs, exchange : {"binance", "okx"}, step : Steps, dry_run : BOOLEAN,
            live_enabled : BOOLEAN, amount : amounts, free_usdt : frees,
            btc_free : btcs, percent : pcts, reserve : reserves, cap : Caps,
            tob : hooks, depth : hooks, twap : hooks] :
        m.exchange = "binance" => m.live_enabled}

HandlerInputs ==
    Invocation({"purchase_btc"}, QuoteAmounts, QuoteAmounts, {0}, {0}, {0}, HookOutcomes)
    \cup Invocation({"purchase_on_exchange"}, QuoteAmounts, {0}, {0}, {0}, {0}, HookOutcomes)
    \cup Invocation({"half_sell"}, {0}, {0}, BtcFree, {0, 50}, {0}, HookOutcomes)
    \cup Invocation({"reserve_buy", "reserve_buy_exchange"}, {0}, QuoteAmounts, {0}, {0},
                    {0} \cup QuoteAmounts, HookOutcomes)
    \cup Invocation({"place_market_buy_quote"}, {3} \cup QuoteAmounts, {0}, {0}, {0}, {0},
                    {"data_ok"})
    \cup Invocation({"place_market_sell_qty"}, {0}, {0}, BtcFree, {0}, {0}, {"data_ok"})

InitHandlers ==
    /\ InitOrchVars
    /\ dec_in \in HandlerInputs
    /\ dec_out = NotDecided
    /\ state_row = [StateDefaults EXCEPT !.exchange = dec_in.exchange,
                                         !.reserve_usdt = dec_in.reserve,
                                         !.reserve_binance_usdt = dec_in.reserve,
                                         !.reserve_okx_usdt = dec_in.reserve]
    /\ sell_orders = NoOrders
    /\ buy_orders = 0
    /\ InitTransIdle
    /\ InitSchedIdle

RunSteps(m, row, resp, fail) ==
    CASE m.handler = "purchase_btc" -> purchase_btc_steps(m, row, resp, fail)
      [] m.handler = "purchase_on_exchange" -> purchase_on_exchange_steps(m, row, resp, fail)
      [] m.handler = "half_sell" -> half_sell_steps(m, row, resp, fail)
      [] m.handler = "reserve_buy" -> reserve_buy_steps("global", m, row, resp, fail)
      [] OTHER -> reserve_buy_steps("exchange", m, row, resp, fail)

\* One handler invocation, from the action to its ActionResult status.
HandleAction ==
    /\ ~dec_out.done
    /\ dec_in.handler \in ExecutionHandlers
    /\ \E resp \in Responses \X Responses, fail \in 0..MaxFail :
           \E o \in {RunSteps(dec_in, state_row, resp, fail)} :
               /\ dec_out' = [done |-> TRUE, actions |-> <<>>, class |-> o.class,
                              reason |-> o.reason, guards |-> o.guards, order |-> o.order,
                              inserted |-> o.inserted, conn |-> o.conn, fail |-> fail,
                              before |-> state_row,
                              status |-> HandlerStatus(dec_in.handler, o.class)]
               /\ state_row' = o.row
               /\ buy_orders' = IF dec_in.handler = "half_sell" THEN buy_orders
                                ELSE buy_orders + Len(o.order.sent)
               /\ sell_orders' = IF dec_in.handler = "half_sell"
                                 THEN [sell_orders EXCEPT ![dec_in.exchange] =
                                                              @ + Len(o.order.sent)]
                                 ELSE sell_orders
    /\ UNCHANGED <<dec_in, orch_vars, trans_vars, sched_vars>>

\* One call of an adapter's order method.
CallAdapter ==
    /\ ~dec_out.done
    /\ dec_in.handler \in AdapterCalls
    /\ \E resp \in Responses \X Responses :
           \E o \in {IF dec_in.handler = "place_market_buy_quote"
                      THEN place_market_buy_quote(dec_in.exchange, dec_in.step,
                               dec_in.dry_run,
                               dec_in.live_enabled, AdapterMaxUsdt(dec_in.cap),
                               dec_in.amount, resp)
                      ELSE place_market_sell_qty(dec_in.exchange, dec_in.step,
                               dec_in.dry_run,
                               dec_in.live_enabled, dec_in.btc_free, resp)} :
               /\ dec_out' = [done |-> TRUE, actions |-> <<>>, order |-> o]
               /\ buy_orders' = IF dec_in.handler = "place_market_buy_quote"
                                THEN buy_orders + Len(o.sent) ELSE buy_orders
               /\ sell_orders' = IF dec_in.handler = "place_market_sell_qty"
                                 THEN [sell_orders EXCEPT ![dec_in.exchange] = @ + Len(o.sent)]
                                 ELSE sell_orders
    /\ UNCHANGED <<dec_in, orch_vars, state_row, trans_vars, sched_vars>>

NextHandlers == HandleAction \/ CallAdapter
SpecHandlers == InitHandlers /\ [][NextHandlers]_vars

Handled(h) == dec_out.done /\ dec_in.handler = h
Reserves(row) == <<row.reserve_usdt, row.reserve_binance_usdt, row.reserve_okx_usdt>>

\* C21: a RESERVE_BUY whose spend min(free quote balance, reserve) is positive but
\* below the exchange's minimum notional ends with result SKIPPED and reason
\* 'below_minNotional', no order placed and every reserve unchanged.
C21_ReserveBuyBelowMinNotionalSkipped ==
    \A h \in {"reserve_buy", "reserve_buy_exchange"} :
        (Handled(h) /\ dec_out.reason = "below_minNotional")
            => /\ dec_out.status = "SKIPPED"
               /\ buy_orders = 0
               /\ Reserves(state_row) = Reserves(dec_out.before)

\* C22: when the free quote balance is below the requested DCA amount, the DCA_BUY
\* action ends SKIPPED, not FAILED, and no order is placed.
C22_InsufficientBalanceSkipped ==
    (Handled("purchase_btc") /\ dec_out.fail = 0 /\ ~dec_in.dry_run
        /\ dec_in.free_usdt < dec_in.amount)
        => /\ dec_out.status = "SKIPPED"
           /\ buy_orders = 0

\* An adapter without the guard's data source: the hook is not implemented
\* (NotImplementedError) or, as in exchanges/binance.py and exchanges/okx.py,
\* not defined at all (AttributeError).
Unsupported == {"NotImplementedError", "AttributeError"}

\* C23: a liquidity guard whose data source the adapter does not support passes,
\* and the handler goes on: it is never the reason the action is rejected.
C23_UnsupportedGuardPasses ==
    (dec_out.done /\ dec_in.handler \in ExecutionHandlers)
        => /\ dec_in.depth \in Unsupported
                  => dec_out.reason \notin {"depth_error", "depth_insufficient"}
           /\ dec_in.twap \in Unsupported
                  => dec_out.reason \notin {"twap_error", "twap_deviation"}
           /\ dec_in.tob \in Unsupported
                  => dec_out.reason \notin {"liquidity_error", "spread_high"}

\* Some liquidity guard rejects on what the adapter's hooks give this invocation.
SomeGuardRejects(m) ==
    \/ ~assess_liquidity(m.tob).ok
    \/ ~evaluate_depth_guard(m.depth, Price).ok
    \/ ~evaluate_twap_guard(m.twap, Price).ok

OrdersSubmitted == buy_orders + sell_orders["binance"] + sell_orders["okx"]

\* C24: every execution handler (global and per-exchange DCA buy, half-sell,
\* reserve-buy) evaluates the spread, depth and TWAP guards before it touches the
\* exchange, and submits no order when any of them rejects.
C24_GuardsBeforeEveryOrder ==
    (dec_out.done /\ dec_in.handler \in ExecutionHandlers)
        => /\ SomeGuardRejects(dec_in) => OrdersSubmitted = 0
           /\ OrdersSubmitted > 0 => {"spread", "depth", "twap"} \subseteq dec_out.guards

\* The notional of an order request in USDT.
NotionalOf(request) ==
    IF request.size = "quote" THEN request.amount ELSE request.amount * Price

\* C25: outside dry-run and with a positive notional cap for the exchange, no
\* handler submits an order whose notional exceeds the cap; in dry-run the cap
\* guard always passes.
C25_NoOrderAboveCap ==
    (dec_out.done /\ dec_in.handler \in ExecutionHandlers)
        => /\ (~dec_in.dry_run /\ dec_in.cap > 0)
                  => \A i \in DOMAIN dec_out.order.sent :
                         NotionalOf(dec_out.order.sent[i]) <= dec_in.cap
           /\ dec_in.dry_run => dec_out.reason # "notional_cap"

\* C26: every order a handler submits has a quantity that is a non-negative
\* multiple of the symbol's step size and a notional of at least the symbol's
\* minimum notional; otherwise the handler skips.
C26_OrdersRespectFilters ==
    (dec_out.done /\ dec_in.handler \in ExecutionHandlers)
        => \A i \in DOMAIN dec_out.order.sent :
               LET request == dec_out.order.sent[i]
               IN  /\ request.size = "base"
                       => request.amount >= 0 /\ request.amount % dec_in.step = 0
                   /\ NotionalOf(request) >= Filters(dec_in.step).minNotional

ReserveFieldOf(m) ==
    ReserveField(IF m.handler = "reserve_buy" THEN "global" ELSE "exchange", m.exchange)

\* C27: the purchase-ledger insert and the reserve decrement of a reserve buy are
\* atomic: after the handler either the ledger row exists and the reserve is
\* decremented by the amount spent, or neither happened; the store connection is
\* released on every exit path.
C27_LedgerAndReserveAtomic ==
    \A h \in {"reserve_buy", "reserve_buy_exchange"} :
        Handled(h)
            => /\ \/ /\ dec_out.inserted = 1
                     /\ state_row = [dec_out.before EXCEPT ![ReserveFieldOf(dec_in)] =
                            reserve_after_buy(@, dec_out.order.cummulative_quote_qty)]
                  \/ /\ dec_out.inserted = 0
                     /\ state_row = dec_out.before
               /\ dec_out.conn # "open"

\* C27 witness: the order was filled and the store failed in the reserve
\* decrement, after the ledger insert: nothing of the transaction is kept.
C27_Witness ==
    /\ Handled("reserve_buy_exchange")
    /\ dec_out.fail = 3
    /\ dec_out.order.cummulative_quote_qty > 0
    /\ dec_out.reason = "store_error"
    /\ dec_out.inserted = 0
    /\ state_row = dec_out.before
    /\ dec_out.conn = "closed"

\* C28: exchange order calls are never retried automatically: one handler
\* invocation (one call of an adapter's order method) sends at most one
\* order-placement request to the exchange.
C28_AtMostOneOrderRequest ==
    dec_out.done => OrdersSubmitted <= 1

DryRunRequest(m) ==
    IF m.handler = "place_market_sell_qty" THEN m.btc_free * Price
    ELSE IF m.exchange = "okx" /\ AdapterMaxUsdt(m.cap) < m.amount
    THEN AdapterMaxUsdt(m.cap)
    ELSE m.amount

\* The grid the quantity is rounded down to: the step for Binance's buy, the
\* lowest decimal place of the step wherever quantize_step is used.
DryRunQuantum(m) ==
    IF m.handler = "place_market_buy_quote" /\ m.exchange = "binance" THEN m.step
    ELSE DecimalQuantum(m.step)

MaxLots == 3
MaxSells == 2
LotQuantities == 0..2
UnitCosts == {1, 3}

\* main.py:1319-1331  the lots of the purchase rows: rows without quantity are
\* left out, cost is usdt_amount / btc_quantity, timestamp the row's position.
LotsOf(purchases) ==
    LET all == [i \in 1..Len(purchases) |->
                   [qty |-> purchases[i].qty,
                    cost |-> IF purchases[i].qty > 0
                             THEN (purchases[i].qty * purchases[i].unit) \div purchases[i].qty
                             ELSE 0,
                    timestamp |-> i]]
        has_qty(lot) == lot.qty > 0
    IN  SelectSeq(all, has_qty)

\* main.py:1333-1348  one sell of the replay: the while loop from lot idx on
RECURSIVE ConsumeLots(_, _, _)
ConsumeLots(lots, idx, remaining) ==
    IF ~(remaining > 0 /\ idx <= Len(lots)) THEN lots
    ELSE IF lots[idx].qty <= 0 THEN ConsumeLots(lots, idx + 1, remaining)
    ELSE LET consume == IF lots[idx].qty < remaining THEN lots[idx].qty ELSE remaining
             left == lots[idx].qty - consume
         IN  ConsumeLots([lots EXCEPT ![idx].qty = left],
                         IF left <= 0 THEN idx ELSE idx + 1, remaining - consume)

\* main.py:1333  for (sell_qty,) in sells: each sell starts at the oldest lot
RECURSIVE ReplaySells(_, _, _)
ReplaySells(lots, sells, n) ==
    IF n = 0 THEN lots ELSE ConsumeLots(ReplaySells(lots, sells, n - 1), 1, sells[n])

\* Mutant: the earlier sells are not replayed.
load_fifo_open_lots_no_replay(purchases, sells, load_ok) ==
    IF load_ok THEN LotsOf(purchases) ELSE <<>>

\* main.py:1291-1350  _load_fifo_open_lots: the lots still open after the
\* replay; no lots at all when reading the ledgers failed.
load_fifo_open_lots(purchases, sells, load_ok) ==
    LET open(lot) == lot.qty > 0
    IN  IF load_ok THEN SelectSeq(ReplaySells(LotsOf(purchases), sells, Len(sells)), open)
        ELSE <<>>

\* main.py:1356-1372  the for loop over the open lots, from lot i on
RECURSIVE ConsumeForSell(_, _, _, _)
ConsumeForSell(lots, i, remaining, acc) ==
    IF i > Len(lots) \/ remaining <= 0 THEN [acc EXCEPT !.remaining = remaining]
    ELSE IF lots[i].qty <= 0 THEN ConsumeForSell(lots, i + 1, remaining, acc)
    ELSE LET consume == IF lots[i].qty < remaining THEN lots[i].qty ELSE remaining
         IN  ConsumeForSell(lots, i + 1, remaining - consume,
                 [acc EXCEPT !.cost = @ + consume * lots[i].cost,
                             !.contributions = Append(@, [qty |-> consume,
                                                  cost_per_unit |-> lots[i].cost,
                                                  source_time |-> lots[i].timestamp])])

\* Mutant: a sell beyond the open lots is charged at the unit cost of the newest
\* open lot and not flagged.
compute_realized_pnl_charged(purchases, sells, load_ok, sell_qty, proceeds) ==
    LET lots == load_fifo_open_lots(purchases, sells, load_ok)
        r == ConsumeForSell(lots, 1, sell_qty,
                            [cost |-> 0, contributions |-> <<>>, remaining |-> sell_qty])
        cost == r.cost + (IF r.remaining > 0 /\ Len(lots) > 0
                          THEN r.remaining * lots[Len(lots)].cost ELSE 0)
    IN  [pnl |-> proceeds - cost, cost_basis |-> cost,
         consumed_qty |-> sell_qty, remaining_qty |-> 0,
         contributions |-> r.contributions, lots_total |-> Len(lots),
         excess_note |-> FALSE]

\* main.py:1352-1386  compute_realized_pnl
compute_realized_pnl(purchases, sells, load_ok, sell_qty, proceeds) ==
    LET lots == load_fifo_open_lots(purchases, sells, load_ok)
        r == ConsumeForSell(lots, 1, sell_qty,
                            [cost |-> 0, contributions |-> <<>>, remaining |-> sell_qty])
    IN  [pnl |-> proceeds - r.cost, cost_basis |-> r.cost,
         consumed_qty |-> sell_qty - r.remaining,
         remaining_qty |-> IF r.remaining > 0 THEN r.remaining ELSE 0,
         contributions |-> r.contributions, lots_total |-> Len(lots),
         excess_note |-> r.remaining > 0]

InitFifo ==
    /\ InitOrchVars
    /\ dec_in \in [purchases : {<<>>} \cup SeqsUpTo([qty : LotQuantities, unit : UnitCosts],
                                                     MaxLots),
                    sells : {<<>>} \cup SeqsUpTo({1, 2}, MaxSells), load_ok : BOOLEAN,
                    sell_qty : 1..3, proceeds : {0, 10}]
    /\ dec_out = NotDecided
    /\ InitStoreIdle
    /\ InitTransIdle
    /\ InitSchedIdle

\* The half-sell pipeline computes the realized P&L of its sell (main.py:1828).
ComputeRealizedPnl ==
    /\ ~dec_out.done
    /\ dec_out' = [done |-> TRUE, actions |-> <<>>,
                   result |-> compute_realized_pnl(dec_in.purchases, dec_in.sells,
                                  dec_in.load_ok, dec_in.sell_qty, dec_in.proceeds)]
    /\ UNCHANGED <<dec_in, orch_vars, store_vars, trans_vars, sched_vars>>

NextFifo == ComputeRealizedPnl
SpecFifo == InitFifo /\ [][NextFifo]_vars

\* The ledger's view, independent of the replay: the quantity bought up to row i,
\* the quantity sold before this sell, and what is left of row i's lot once
\* `sold` units were taken oldest-first.
RECURSIVE BoughtUpTo(_, _)
BoughtUpTo(purchases, i) ==
    IF i = 0 THEN 0 ELSE BoughtUpTo(purchases, i - 1) + purchases[i].qty

RECURSIVE SoldUpTo(_, _)
SoldUpTo(sells, n) == IF n = 0 THEN 0 ELSE SoldUpTo(sells, n - 1) + sells[n]

LeftOfLot(purchases, i, sold) ==
    LET over == BoughtUpTo(purchases, i) - sold
    IN  IF over <= 0 THEN 0
        ELSE IF over > purchases[i].qty THEN purchases[i].qty ELSE over

SoldBefore == SoldUpTo(dec_in.sells, Len(dec_in.sells))
TotalRemaining ==
    LET all == BoughtUpTo(dec_in.purchases, Len(dec_in.purchases)) - SoldBefore
    IN  IF all > 0 THEN all ELSE 0

\* What the sell takes from row i's lot, oldest-first.
TakenFifo(i) ==
    LeftOfLot(dec_in.purchases, i, SoldBefore)
        - LeftOfLot(dec_in.purchases, i, SoldBefore + dec_in.sell_qty)

RECURSIVE FifoCost(_)
FifoCost(i) ==
    IF i = 0 THEN 0 ELSE FifoCost(i - 1) + TakenFifo(i) * dec_in.purchases[i].unit

\* The result consumed the open lots strictly oldest-first: its contributions
\* are in purchase order, each takes what FIFO takes from its lot at the lot's
\* unit cost, no other lot had anything to give, and every lot older than a
\* touched one is exhausted.
OldestFirst(result) ==
    LET c == result.contributions
    IN  /\ \A k \in 1..Len(c) :
               /\ k > 1 => c[k - 1].source_time < c[k].source_time
               /\ c[k].qty = TakenFifo(c[k].source_time)
               /\ c[k].qty > 0
               /\ c[k].cost_per_unit = dec_in.purchases[c[k].source_time].unit
               /\ \A j \in 1..(c[k].source_time - 1) :
                      LeftOfLot(dec_in.purchases, j, SoldBefore + dec_in.sell_qty) = 0
        /\ \A i \in 1..Len(dec_in.purchases) :
               TakenFifo(i) > 0 => \E k \in 1..Len(c) : c[k].source_time = i

FifoResult(result) ==
    /\ OldestFirst(result)
    /\ result.cost_basis = FifoCost(Len(dec_in.purchases))
    /\ result.pnl = dec_in.proceeds - result.cost_basis
    /\ result.consumed_qty = dec_in.sell_qty
    /\ ~result.excess_note

MaxSteps == 15

\* The k for which the double division (k * 0.00001) / 0.00001 is below k, so that
\* math.floor gives k - 1 (IEEE-754 binary64, round to nearest; k up to 30).
LowQuotients == {7, 13, 14, 15, 26, 27, 28, 29, 30}

\* exchanges/base.py:50  floor(value / step) for the step of 2 units
FloorOfQuotient(value, step) ==
    IF value % step = 0 /\ (value \div step) \in LowQuotients
    THEN (value \div step) - 1
    ELSE value \div step

\* exchanges/base.py:47-50  floor_to_step, as computed in doubles
floor_to_step_float(value, step) ==
    IF step <= 0 THEN value ELSE FloorOfQuotient(value, step) * step

InitRounding ==
    /\ InitOrchVars
    /\ dec_in \in [v : 0..(2 * MaxSteps + 1), step : {0 - 2, 0, 2}]
    /\ dec_out = NotDecided
    /\ InitStoreIdle
    /\ InitTransIdle
    /\ InitSchedIdle

\* The same quantity through the adapters' floor_to_step and through the
\* handlers' adjust_qty_to_step (main.py:1620-1630, exact in Decimal).
RoundQuantity ==
    /\ ~dec_out.done
    /\ dec_out' = [done |-> TRUE, actions |-> <<>>,
                   floored |-> floor_to_step_float(dec_in.v, dec_in.step),
                   aligned |-> adjust_qty_to_step(dec_in.v, 100, dec_in.step)]
    /\ UNCHANGED <<dec_in, orch_vars, store_vars, trans_vars, sched_vars>>

NextRounding == RoundQuantity
SpecRounding == InitRounding /\ [][NextRounding]_vars

\* C32: floor_to_step(v, step) is k * step for the largest integer k with
\* k * step <= v for every step > 0, and v itself when step <= 0; the handlers'
\* adjust_qty_to_step agrees with it for every non-negative v.
C32_FloorToStep ==
    dec_out.done
        => /\ dec_in.step > 0
                  => /\ dec_out.floored % dec_in.step = 0
                     /\ dec_out.floored <= dec_in.v
                     /\ dec_in.v < dec_out.floored + dec_in.step
           /\ dec_in.step <= 0 => dec_out.floored = dec_in.v
           /\ dec_out.aligned = dec_out.floored

\* C33: only SUCCESS records a dedupe key: the orchestrator's key set is exactly
\* the keys whose handler returned SUCCESS (a FAILED or SKIPPED result, a raising
\* handler and a missing handler add nothing), so an action with a registered
\* handler goes uninvoked only when its key succeeded before; in every other
\* case a later execute call with the same key invokes the handler again.
C33_OnlySuccessRecordsKey ==
    /\ dedupe_cache = {calls[c].key : c \in {d \in 1..Len(calls) : calls[d].outcome = "SUCCESS"}}
    /\ \A i \in 1..Len(last_exec.actions) :
           (/\ last_exec.actions[i].action_type \in DOMAIN OrchHandlers
            /\ \A c \in 1..Len(last_exec.calls) : last_exec.calls[c].pos # i)
               => \E c \in 1..Len(calls) :
                      /\ calls[c].outcome = "SUCCESS"
                      /\ calls[c].key = last_exec.actions[i].dedupe_key

\* C33 witness: a key's handler returned FAILED, then raised, then returned
\* SKIPPED, each time invoked again, and the key set is still empty.
C33_Witness ==
    /\ Len(calls) = 3
    /\ calls[1].outcome = "FAILED"
    /\ calls[2].outcome = "RAISE"
    /\ calls[3].outcome = "SKIPPED"
    /\ calls[2].key = calls[1].key
    /\ calls[3].key = calls[1].key
    /\ Len(last_exec.calls) = 1
    /\ dedupe_cache = {}

(***************************************************************************)
(* main.py:1111-1171  the signal from the per-bar flags.  A bar is         *)
(* "green" (bull and price above fast), "bull" (fast > slow only), "flat"  *)
(* (fast = slow), "bear" (fast < slow only) or "red" (bear and price below *)
(* fast); positions are the list indices plus one.                         *)
(***************************************************************************)

MaxBars == 4
BarKinds == {"green", "bull", "flat", "bear", "red"}

\* main.py:1152-1156  buycond / sellcond: False at the first bar
Edges(bars, colour) ==
    [i \in 1..Len(bars) |-> i > 1 /\ bars[i] = colour /\ bars[i - 1] # colour]

\* main.py:1111-1115  _last_true_idx from position i downwards; 0 stands for None
RECURSIVE last_true_idx(_, _)
last_true_idx(flags, i) ==
    IF i = 0 THEN 0
    ELSE IF flags[i] THEN i
    ELSE last_true_idx(flags, i - 1)

\* Mutant: the raw fast > slow comparison on the last bar, whatever the edges.
action_zone_status_raw(bars) ==
    IF bars[Len(bars)] \in {"green", "bull"} THEN "up" ELSE "down"

\* main.py:1145-1168  status from the flags: bars_since_* is infinite for None
action_zone_status(bars) ==
    LET n == Len(bars)
        last_buy == last_true_idx(Edges(bars, "green"), n)
        last_sell == last_true_idx(Edges(bars, "red"), n)
        is_bullish ==
            IF last_buy = 0 /\ last_sell = 0 THEN bars[n] \in {"green", "bull"}
            ELSE IF last_buy = 0 THEN FALSE
            ELSE IF last_sell = 0 THEN TRUE
            ELSE (n - last_buy) < (n - last_sell)
    IN  IF is_bullish THEN "up" ELSE "down"

InitActionZone ==
    /\ InitOrchVars
    /\ dec_in \in [bars : SeqsUpTo(BarKinds, MaxBars)]
    /\ dec_out = NotDecided
    /\ InitStoreIdle
    /\ InitTransIdle
    /\ InitSchedIdle

ComputeActionZone ==
    /\ ~dec_out.done
    /\ dec_out' = [done |-> TRUE, actions |-> <<>>,
                   status |-> action_zone_status(dec_in.bars)]
    /\ UNCHANGED <<dec_in, orch_vars, store_vars, trans_vars, sched_vars>>

NextActionZone == ComputeActionZone
SpecActionZone == InitActionZone /\ [][NextActionZone]_vars

BuyEdge(i) == i > 1 /\ dec_in.bars[i] = "green" /\ dec_in.bars[i - 1] # "green"
SellEdge(i) == i > 1 /\ dec_in.bars[i] = "red" /\ dec_in.bars[i - 1] # "red"

\* C34: the signal is 'up' exactly when there is a buy-edge (first green bar
\* after a non-green bar) more recent than every sell-edge (first red bar after
\* a non-red bar); when there is no edge of either kind it is the raw fast > slow
\* comparison on the last bar; in every other case it is 'down'.
C34_SignalFromEdges ==
    dec_out.done
        => LET n == Len(dec_in.bars)
               none == \A i \in 1..n : ~BuyEdge(i) /\ ~SellEdge(i)
               buy_latest == \E i \in 1..n :
                                 BuyEdge(i) /\ \A j \in 1..n : SellEdge(j) => j < i
           IN  dec_out.status =
                   IF none
                   THEN (IF dec_in.bars[n] \in {"green", "bull"} THEN "up" ELSE "down")
                   ELSE IF buy_latest THEN "up" ELSE "down"

\* C34 witness: a sell-edge, then a buy-edge, then a bearish (not red) last bar:
\* the signal is 'up' although fast < slow on the last bar.
C34_Witness ==
    /\ dec_out.done
    /\ dec_in.bars = <<"bull", "red", "green", "bear">>
    /\ dec_out.status = "up"

HalfSellTargets == {t[1] : t \in HalfSellsOf(dec_out.actions)}
NonZeroPercent == {ex \in {"binance", "okx"} : pct_for(dec_in, ex) > 0}

\* C35: on a transition to 'down' with the red epoch inactive, the HALF_SELL
\* actions target only the forced exchange under a forced policy (binance_only,
\* okx_only); under auto_proportional they target every exchange with a non-zero
\* sell percent, and the active exchange when no exchange has one.
C35_HalfSellTargetsByPolicy ==
    (dec_out.done /\ ~SameStatus(dec_in) /\ dec_in.current_status = "down"
        /\ ~dec_in.red_epoch_active)
        => /\ dec_in.half_sell_policy = "binance_only" => HalfSellTargets \subseteq {"binance"}
           /\ dec_in.half_sell_policy = "okx_only" => HalfSellTargets \subseteq {"okx"}
           /\ dec_in.half_sell_policy = "auto_proportional"
                 => HalfSellTargets = (IF NonZeroPercent # {} THEN NonZeroPercent
                                       ELSE {dec_in.active_exchange})


(***************************************************************************)
(* C36: the order a reserve buy requests.                                  *)
(***************************************************************************)

ReserveBuyHandlers == {"reserve_buy", "reserve_buy_exchange"}

\* The reserve the handler draws on, as it was before, and the handler's spend
\* min(free quote balance, reserve).
TargetedReserve == dec_out.before[ReserveFieldOf(dec_in)]
ReserveBuySpend ==
    IF dec_in.free_usdt < TargetedReserve THEN dec_in.free_usdt ELSE TargetedReserve

\* The max_usdt of the OKX adapter the handler resolved: the state's okx_max_usdt
\* when the per-exchange reserve buy finds it positive, else the adapter's default.
ResolvedMaxUsdt ==
    IF dec_in.handler = "reserve_buy_exchange" /\ dec_in.cap > 0 THEN dec_in.cap
    ELSE OkxDefaultMaxUsdt

ReserveDecreasedBySpent ==
    dec_out.class = "executed"
        => /\ state_row[ReserveFieldOf(dec_in)] =
                  TargetedReserve - dec_out.order.cummulative_quote_qty
           /\ \A f \in DOMAIN state_row :
                  f # ReserveFieldOf(dec_in) => state_row[f] = dec_out.before[f]

PerExchangeModes == {"binance", "okx", "both"}

\* C37: when a due schedule with exchange mode 'binance', 'okx' or 'both' is gated
\* through gate_weekly_dca, every action of the decision is dispatched through the
\* orchestrator and the call returns normally - here with no failure of the store,
\* the candle source, the exchange or the notification channel in the whole run.
C37_PerExchangeGateReturns ==
    \A i \in DOMAIN schedules : \A d \in Dates :
        (schedules[i].exchange_mode \in PerExchangeModes /\ faults = 0)
            => gate_log[schedules[i].id][d].returns = gate_log[schedules[i].id][d].calls


(***************************************************************************)
(* C38: a RESERVE_MOVE reported SUCCESS and the reserve in the store.      *)
(***************************************************************************)

\* The schedules whose gate call of this iteration had its action reported SUCCESS.
SucceededNow ==
    {id \in Ids : gate_log'[id][now.date].success > gate_log[id][now.date].success}

\* C38: whenever a RESERVE_MOVE action is reported SUCCESS (its dedupe key being
\* recorded), the targeted reserve in the store has been increased by exactly the
\* action's amount.
C38_SuccessMeansReserveIncreased ==
    [][(IterationStep /\ signal = "down" /\ state_row.cdc_enabled = 1)
       => state_row'.reserve_usdt
            = state_row.reserve_usdt + AmountOf(config_cache', SucceededNow, 1)]_vars


(***************************************************************************)
(* C39: the half-sell of every transition to down.                         *)
(***************************************************************************)

SiblingWeeklyInputs ==
    [now : {NineOClock},
     schedule_id : {1},
     mode : Modes,
     amount : {50},
     cdc_status : Statuses \cup {"disabled"},
     cdc_enabled : BOOLEAN,
     binance_amount : {0, 40, 60},
     okx_amount : {0, 40}]

SiblingTransitionInputs ==
    [now : {NineOClock},
     previous_status : PrevStatuses,
     current_status : Statuses,
     red_epoch_active : BOOLEAN,
     half_sell_policy : Policies,
     sell_percent_binance : {0, 30, 50},
     sell_percent_okx : {0, 30},
     sell_percent_global : {50},
     active_exchange : {"binance", "okx"},
     reserve_usdt : {0, 50},
     reserve_binance_usdt : {0, 50},
     reserve_okx_usdt : {0, 50}]

InitSiblings ==
    /\ InitOrchVars
    /\ dec_in \in {[fn |-> "decide_weekly_dca", data |-> d] : d \in SiblingWeeklyInputs}
               \cup {[fn |-> "decide_transition", data |-> d] : d \in SiblingTransitionInputs}
    /\ dec_out = NotDecided
    /\ InitStoreIdle
    /\ InitTransIdle
    /\ InitSchedIdle

DecideWeeklyOnce ==
    /\ ~dec_out.done
    /\ dec_in.fn = "decide_weekly_dca"
    /\ dec_out' = [done |-> TRUE, actions |-> decide_weekly_dca(dec_in.data, "cdc-weekly-1")]
    /\ UNCHANGED <<dec_in, orch_vars, store_vars, trans_vars, sched_vars>>

DecideTransitionOnce ==
    /\ ~dec_out.done
    /\ dec_in.fn = "decide_transition"
    /\ dec_out' = [done |-> TRUE,
                   actions |-> decide_transition(dec_in.data, "cdc-transition-1")]
    /\ UNCHANGED <<dec_in, orch_vars, store_vars, trans_vars, sched_vars>>

NextSiblings == DecideWeeklyOnce \/ DecideTransitionOnce
SpecSiblings == InitSiblings /\ [][NextSiblings]_vars

\* C40: all actions returned by one call of decide_weekly_dca or of
\* decide_transition have pairwise distinct dedupe keys, for every input.
C40_SiblingKeysDistinct ==
    dec_out.done
        => \A i, j \in 1..Len(dec_out.actions) :
              i # j => dec_out.actions[i].dedupe_key # dec_out.actions[j].dedupe_key

\* Decisions with sibling actions that differ in the exchange only: two weekly legs
\* of the same amount and kind, two half-sells of the same percent.
C40_Witness ==
    /\ dec_out.done
    /\ Len(dec_out.actions) = 2
    /\ dec_out.actions[1].action_type = dec_out.actions[2].action_type
    /\ dec_out.actions[1].payload.exchange # dec_out.actions[2].payload.exchange
    /\ \/ /\ dec_in.fn = "decide_weekly_dca"
          /\ dec_out.actions[1].payload.amount = dec_out.actions[2].payload.amount
       \/ /\ dec_in.fn = "decide_transition"
          /\ dec_out.actions[1].payload.percent = dec_out.actions[2].payload.percent

====
